---------------------------- MODULE Spec2Model ----------------------------
(***************************************************************************)
(* CenterStage: the framing engine (src/src/core/center_stage.py), the     *)
(* detection cache (src/src/core/detector.py), the face tracker            *)
(* (src/src/core/tracker.py), the camera capture                           *)
(* (src/src/core/camera.py), the virtual camera output                     *)
(* (src/src/core/virtual_camera.py) and the frame handler of the main      *)
(* window (src/src/ui/main_window.py).                                     *)
(*                                                                         *)
(* Normalized coordinates (Python floats in the source) are fixed-point    *)
(* integers: the value v is the integer v * ONE.  Sums and differences     *)
(* are exact; a product or quotient is rounded to the nearest unit         *)
(* (RoundDiv), as a float operation is rounded to the nearest float.       *)
(***************************************************************************)
EXTENDS Integers, Sequences, FiniteSets, TLC

VARIABLES
    enabled,              \* CenterStageConfig.enabled
    current_crop,         \* CenterStageState.current_crop
    target_crop,          \* CenterStageState.target_crop
    frames_without_face,  \* CenterStageState.frames_without_face
    is_tracking,          \* CenterStageState.is_tracking
    update_ret,           \* <<crop>> returned by the last call if it was update(), else <<>>
    frame_count,          \* FaceDetector._frame_count
    last_result,          \* FaceDetector._last_result: <<>> is None, <<r>> a DetectionResult
    cascade_last,         \* the detectMultiScale invocation of the last detect() call:
                          \* "none" (not invoked), "returned" or "raised"
    detect_ret,           \* how the last detect() call ended, and the result it returned
    tracked_faces,        \* FaceTracker._tracked_faces, in the dict's insertion order
                          \* (FaceTracker._trackers always holds the same keys)
    next_id,              \* FaceTracker._next_id
    tracker_ret,          \* the last FaceTracker call: its name, the list it returned
                          \* and the ids whose predictor failed in it
    call_args,            \* the arguments of a call of a pure function (<<>>: no call)
    call_ret,             \* <<>> until the call returns, then <<result>>
    running,              \* CameraCapture._running
    state,                \* CameraCapture._state
    capture,              \* CameraCapture._capture: None or the index in captures
    thread,               \* CameraCapture._thread: None or the index in threads
    current_frame,        \* CameraCapture._current_frame: None or a frame number
    captures,             \* the VideoCapture objects created: "opened", "unopened"
                          \* or "released"
    threads,              \* the capture threads started: where each one is in
                          \* _capture_loop, the capture it reads and the frame it got
    frames_read,          \* the number of frames the camera has delivered
    emitted,              \* the signals emitted by the last step
    main_pc,              \* where the caller of start() and stop() is
    camera_ret,           \* the last call of start() or stop() that returned
    VIRTUAL_CAM_AVAILABLE,  \* whether pyvirtualcam could be imported
    sink_running,         \* VirtualCameraOutput._running
    cam,                  \* VirtualCameraOutput._cam: None or the index in devices
    backend_used,         \* VirtualCameraOutput._backend_used: None or a backend name
    devices,              \* the pyvirtualcam.Camera objects created: the backend,
                          \* "open" or "closed", the frames received and the
                          \* sends that raised
    send_pc,              \* where the caller of send_frame() is
    send_arg,             \* the frame passed to the send_frame() call in progress
    sink_ret,             \* the last VirtualCameraOutput call that returned, with
                          \* the Camera() calls it made
    is_processing,        \* MainWindow._is_processing
    window_frame_count,   \* MainWindow._frame_count
    window_pc,            \* where _on_frame_ready is
    cycle,                \* the frame and the locals detection, crop and
                          \* processed_frame of the _on_frame_ready call that
                          \* last passed the guard
    window_delivered,     \* the number of frames delivered to _on_frame_ready
    window_ret            \* how the last _on_frame_ready call ended

engineVars == <<enabled, current_crop, target_crop,
                frames_without_face, is_tracking, update_ret>>
detectorVars == <<frame_count, last_result, cascade_last, detect_ret>>
trackerVars == <<tracked_faces, next_id, tracker_ret>>
callVars == <<call_args, call_ret>>
cameraVars == <<running, state, capture, thread, current_frame, captures,
                threads, frames_read, emitted, main_pc, camera_ret>>
sinkVars == <<VIRTUAL_CAM_AVAILABLE, sink_running, cam, backend_used, devices,
              send_pc, send_arg, sink_ret>>
windowVars == <<is_processing, window_frame_count, window_pc, cycle,
                window_delivered, window_ret>>
vars == <<enabled, current_crop, target_crop, frames_without_face,
          is_tracking, update_ret, frame_count, last_result, cascade_last,
          detect_ret, tracked_faces, next_id, tracker_ret, call_args, call_ret,
          running, state, capture, thread, current_frame, captures, threads,
          frames_read, emitted, main_pc, camera_ret,
          VIRTUAL_CAM_AVAILABLE, sink_running, cam, backend_used, devices,
          send_pc, send_arg, sink_ret,
          is_processing, window_frame_count, window_pc, cycle,
          window_delivered, window_ret>>

\* what an operation of one component leaves alone
exceptEngine == <<detectorVars, trackerVars, callVars, cameraVars, sinkVars, windowVars>>
exceptDetector == <<engineVars, trackerVars, callVars, cameraVars, sinkVars, windowVars>>
exceptTracker == <<engineVars, detectorVars, callVars, cameraVars, sinkVars, windowVars>>
exceptCall == <<engineVars, detectorVars, trackerVars, cameraVars, sinkVars, windowVars>>
exceptCamera == <<engineVars, detectorVars, trackerVars, callVars, sinkVars, windowVars>>
exceptSink == <<engineVars, detectorVars, trackerVars, callVars, cameraVars, windowVars>>

---------------------------------------------------------------------------
(* Fixed-point arithmetic *)

\* 1.0 in model units (a multiple of 100 and of 16, so that hundredths and
\* the 16:9 height of a full-width crop are exact)
ONE == 100 * 16

Max(a, b) == IF a >= b THEN a ELSE b
Min(a, b) == IF a <= b THEN a ELSE b
Abs(a) == IF a >= 0 THEN a ELSE -a

\* n / d rounded to the nearest unit (d > 0)
RoundDiv(n, d) == (2 * n + d) \div (2 * d)

\* v hundredths as model units
Hundredths(v) == v * (ONE \div 100)

---------------------------------------------------------------------------
(* Configuration (CenterStageConfig) *)

\* dead_zone, in hundredths (0.01, the engine fixture of the tests)
dead_zone == 1
\* min_zoom and max_zoom, in tenths (defaults 1.0 and 2.5)
min_zoom == 10
max_zoom == 25
\* face_padding, in hundredths (default 0.35)
face_padding == 35
\* aspect_ratio = 16 / 9
aspect_w == 16
aspect_h == 9
\* framing_mode (default FramingMode.ALL)
framing_mode == "all"
\* frames_until_reset (a small value of the configurable threshold)
frames_until_reset == 3

\* smoothing, in hundredths (0.5, the engine fixture of the tests)
smoothing == 50

\* No-face updates are issued only while the counter is below this cap
MaxNoFaceFrames == 10

---------------------------------------------------------------------------
(* CropRegion *)

CropRegion(x, y, w, h) == [x |-> x, y |-> y, width |-> w, height |-> h]

full_frame == CropRegion(0, 0, ONE, ONE)

\* twice the centre of a region (the centre itself is x + width / 2)
center2x(c) == 2 * c.x + c.width
center2y(c) == 2 * c.y + c.height

\* clamp without the lower bound 0 on the origin
clamp_upper_only(c) ==
    LET x == Min(c.x, ONE - c.width)
        y == Min(c.y, ONE - c.height)
        width == Min(c.width, ONE - x)
        height == Min(c.height, ONE - y)
    IN  CropRegion(x, y, width, height)

clamp(c) ==
    LET x == Max(0, Min(c.x, ONE - c.width))
        y == Max(0, Min(c.y, ONE - c.height))
        width == Min(c.width, ONE - x)
        height == Min(c.height, ONE - y)
    IN  CropRegion(x, y, width, height)

\* lerp with the sign of the step reversed
lerp_away(c, target, factor) ==
    CropRegion(c.x - RoundDiv((target.x - c.x) * factor, 100),
               c.y - RoundDiv((target.y - c.y) * factor, 100),
               c.width - RoundDiv((target.width - c.width) * factor, 100),
               c.height - RoundDiv((target.height - c.height) * factor, 100))

\* factor in hundredths
lerp(c, target, factor) ==
    CropRegion(c.x + RoundDiv((target.x - c.x) * factor, 100),
               c.y + RoundDiv((target.y - c.y) * factor, 100),
               c.width + RoundDiv((target.width - c.width) * factor, 100),
               c.height + RoundDiv((target.height - c.height) * factor, 100))

---------------------------------------------------------------------------
(* DetectionResult *)

FaceDetection(x, y, w, h) ==
    [x |-> Hundredths(x), y |-> Hundredths(y),
     width |-> Hundredths(w), height |-> Hundredths(h)]

has_faces(faces) == Len(faces) > 0

area(f) == f.width * f.height

\* the first face of the list, whatever its area
primary_face_first(faces) == faces[1]

\* max(self.faces, key=area): the first face of largest area
primary_face(faces) ==
    LET best == CHOOSE i \in 1..Len(faces) :
                    /\ \A j \in 1..Len(faces) : area(faces[j]) <= area(faces[i])
                    /\ \A j \in 1..(i - 1) : area(faces[j]) < area(faces[i])
    IN  faces[best]

SetMin(S) == CHOOSE v \in S : \A u \in S : v <= u
SetMax(S) == CHOOSE v \in S : \A u \in S : v >= u

---------------------------------------------------------------------------
(* CenterStageEngine: pure helpers *)

\* the faces the target is computed from in a framing mode: the primary
\* face in SINGLE mode, result.faces in every other mode
framed_faces_in(mode, faces) ==
    IF mode = "single" THEN <<primary_face(faces)>> ELSE faces

framed_faces_primary_only(faces) == <<primary_face(faces)>>

framed_faces(faces) == framed_faces_in(framing_mode, faces)

\* 1.0 / config.min_zoom and 1.0 / config.max_zoom of a configuration
\* whose zoom limits are zmin and zmax tenths
max_size_in(zmin) == RoundDiv(ONE * 10, zmin)
min_size_in(zmax) == RoundDiv(ONE * 10, zmax)

\* the zoom limits left out
zoom_limits_in_none(zmin, zmax, region_width) == region_width

\* region_width = max(min_size, min(max_size, region_width))
zoom_limits_in(zmin, zmax, region_width) ==
    Max(min_size_in(zmax), Min(max_size_in(zmin), region_width))

zoom_limits(region_width) == zoom_limits_in(min_zoom, max_zoom, region_width)

\* the crop _calculate_target_crop builds from the faces fs, before the
\* final clamp(), under the zoom limits zmin and zmax
unclamped_crop_in(zmin, zmax, fs) ==
    LET idx == 1..Len(fs)
        \* bounding box encompassing all faces
        min_x0 == SetMin({fs[i].x : i \in idx})
        min_y0 == SetMin({fs[i].y : i \in idx})
        max_x0 == SetMax({fs[i].x + fs[i].width : i \in idx})
        max_y0 == SetMax({fs[i].y + fs[i].height : i \in idx})
        face_width == max_x0 - min_x0
        face_height == max_y0 - min_y0
        padding_x == RoundDiv(face_width * face_padding, 100)
        padding_y == RoundDiv(face_height * face_padding, 100)
        \* expand bounds with padding
        min_x1 == Max(0, min_x0 - padding_x)
        min_y1 == Max(0, min_y0 - padding_y)
        max_x == Min(ONE, max_x0 + padding_x)
        max_y == Min(ONE, max_y0 + padding_y)
        region_width0 == max_x - min_x1
        region_height0 == max_y - min_y1
        \* current_ratio > target_ratio, current_ratio being target_ratio
        \* when region_height is not positive
        too_wide == /\ region_height0 > 0
                    /\ region_width0 * aspect_h > region_height0 * aspect_w
        new_height == RoundDiv(region_width0 * aspect_h, aspect_w)
        new_width == RoundDiv(region_height0 * aspect_w, aspect_h)
        min_y == IF too_wide
                 THEN Max(0, min_y1 - RoundDiv(new_height - region_height0, 2))
                 ELSE min_y1
        min_x == IF too_wide
                 THEN min_x1
                 ELSE Max(0, min_x1 - RoundDiv(new_width - region_width0, 2))
        region_width1 == IF too_wide THEN region_width0 ELSE new_width
        region_width == zoom_limits_in(zmin, zmax, region_width1)
        region_height == RoundDiv(region_width * aspect_h, aspect_w)
        \* centre the crop
        face_center_x == RoundDiv(min_x + max_x, 2)
        face_center_y == RoundDiv(min_y + max_y, 2)
        crop_x == face_center_x - RoundDiv(region_width, 2)
        crop_y == face_center_y - RoundDiv(region_height, 2)
    IN  CropRegion(crop_x, crop_y, region_width, region_height)

\* under the configured zoom limits
unclamped_crop(fs) == unclamped_crop_in(min_zoom, max_zoom, fs)

target_crop_of(fs) == clamp(unclamped_crop(fs))

calculate_target_crop(faces) == target_crop_of(framed_faces(faces))

\* the bounding box of the framed faces expanded by the padding, as
\* _calculate_target_crop computes it
padded_union(faces) ==
    LET fs == framed_faces(faces)
        idx == 1..Len(fs)
        min_x == SetMin({fs[i].x : i \in idx})
        min_y == SetMin({fs[i].y : i \in idx})
        max_x == SetMax({fs[i].x + fs[i].width : i \in idx})
        max_y == SetMax({fs[i].y + fs[i].height : i \in idx})
        padding_x == RoundDiv((max_x - min_x) * face_padding, 100)
        padding_y == RoundDiv((max_y - min_y) * face_padding, 100)
    IN  [min_x |-> Max(0, min_x - padding_x), min_y |-> Max(0, min_y - padding_y),
         max_x |-> Min(ONE, max_x + padding_x), max_y |-> Min(ONE, max_y + padding_y)]

\* the largest crop the zoom limits and the aspect ratio allow
largest_crop_width == RoundDiv(ONE * 10, min_zoom)
largest_crop_height == RoundDiv(largest_crop_width * aspect_h, aspect_w)

\* twice dx + dy + dw of _smooth_transition
total_delta2(current, target) ==
    Abs(center2x(target) - center2x(current))
    + Abs(center2y(target) - center2y(current))
    + 2 * Abs(target.width - current.width)

in_dead_zone(current, target) ==
    total_delta2(current, target) < 2 * Hundredths(dead_zone)

\* _smooth_transition without the dead-zone check
smooth_transition_no_dead_zone(current, target, s) ==
    clamp(lerp(current, target, s))

\* _smooth_transition jumping to the target
smooth_transition_snap(current, target, s) ==
    IF in_dead_zone(current, target) THEN current ELSE target

smooth_transition(current, target, s) ==
    IF in_dead_zone(current, target)
    THEN current
    ELSE clamp(lerp(current, target, s))

\* the reset test one update late, and with > in place of >=
reset_due_late(n) == n > frames_until_reset + 1
reset_due_strict(n) == n > frames_until_reset

\* frames_without_face >= frames_until_reset
reset_due(n) == n >= frames_until_reset

---------------------------------------------------------------------------
(* Inputs *)

\* Face lists handed to update(), coordinates in hundredths: no face, the
\* face of test_crop_moves_towards_face, and a face wholly outside the frame
\* (left of it and below it).
FaceRight == FaceDetection(60, 40, 15, 20)
FaceOutside == FaceDetection(-50, 120, 20, 30)

FaceLists == { <<>>, <<FaceRight>>, <<FaceOutside>> }

\* Face lists whose rectangles leave the frame: a face reaching past the
\* right and bottom edges, and the face wholly outside.
FacePartlyOut == FaceDetection(90, 80, 30, 40)

OutOfFrameFaceLists == { <<>>, <<FacePartlyOut>>, <<FaceOutside>> }

\* In-frame face lists held in front of the camera: the face of
\* test_crop_moves_towards_face, the two faces of
\* test_multiple_faces_includes_all, faces touching the top, the left and
\* the bottom-right borders of the frame, and a face too tall for the
\* largest crop.
FaceTop == FaceDetection(40, 0, 20, 30)
FaceLeft == FaceDetection(0, 30, 10, 10)
FaceCorner == FaceDetection(80, 80, 20, 20)
FaceFirst == FaceDetection(10, 30, 15, 20)
FaceSecond == FaceDetection(70, 40, 15, 20)
FaceTall == FaceDetection(40, 20, 20, 50)

\* more faces for _calculate_target_crop: a small one in the middle of the
\* frame and one nearly as high as the frame
FaceCentre == FaceDetection(45, 40, 10, 10)
FaceBig == FaceDetection(30, 10, 30, 70)

\* the framing modes (FramingMode)
FramingModes == {"single", "all", "closest"}

\* result.faces given to _calculate_target_crop: one to three faces, in
\* every order
TargetFaces == {FaceFirst, FaceSecond, FaceTall, FaceLeft, FaceCentre, FaceBig}
TargetFaceLists ==
    UNION { [1..n -> TargetFaces] : n \in 1..3 }
TargetInputs == [mode : FramingModes, faces : TargetFaceLists]

HeldFaces == {FaceRight, FaceTop, FaceLeft, FaceCorner, FaceFirst, FaceSecond, FaceTall}
HeldFaceLists ==
    { <<f>> : f \in HeldFaces }
    \cup { <<FaceFirst, FaceSecond>>, <<FaceTop, FaceRight>>, <<FaceLeft, FaceCorner>> }

---------------------------------------------------------------------------
(* CenterStageEngine: operations *)

EngineInit ==
    /\ enabled = TRUE
    /\ current_crop = full_frame
    /\ target_crop = full_frame
    /\ frames_without_face = 0
    /\ is_tracking = FALSE
    /\ update_ret = <<>>

\* a reset that leaves the target where it was
fresh_state_keeps_target ==
    /\ current_crop' = full_frame
    /\ frames_without_face' = 0
    /\ is_tracking' = FALSE
    /\ UNCHANGED target_crop

\* self._state = CenterStageState()
fresh_state ==
    /\ current_crop' = full_frame
    /\ target_crop' = full_frame
    /\ frames_without_face' = 0
    /\ is_tracking' = FALSE

reset ==
    /\ fresh_state
    /\ update_ret' = <<>>
    /\ UNCHANGED enabled

\* set_enabled without the reset
set_enabled_keeps_state(value) ==
    /\ enabled' = value
    /\ UNCHANGED <<current_crop, target_crop, frames_without_face, is_tracking>>
    /\ update_ret' = <<>>

set_enabled(value) ==
    /\ enabled' = value
    /\ IF ~value
       THEN fresh_state
       ELSE UNCHANGED <<current_crop, target_crop, frames_without_face, is_tracking>>
    /\ update_ret' = <<>>

\* update(result) of an engine whose configuration has the zoom limits zmin
\* and zmax
update_in(zmin, zmax, faces) ==
    /\ IF ~enabled
       THEN /\ update_ret' = <<full_frame>>
            /\ UNCHANGED <<current_crop, target_crop, frames_without_face, is_tracking>>
       ELSE /\ IF has_faces(faces)
               THEN /\ target_crop' = clamp(unclamped_crop_in(zmin, zmax,
                                                             framed_faces(faces)))
                    /\ frames_without_face' = 0
                    /\ is_tracking' = TRUE
               ELSE /\ frames_without_face < MaxNoFaceFrames
                    /\ frames_without_face' = frames_without_face + 1
                    /\ IF reset_due(frames_without_face + 1)
                       THEN /\ target_crop' = full_frame
                            /\ is_tracking' = FALSE
                       ELSE UNCHANGED <<target_crop, is_tracking>>
            /\ current_crop' = smooth_transition(current_crop, target_crop', smoothing)
            /\ update_ret' = <<current_crop'>>
    /\ UNCHANGED enabled

\* update(result) under the default zoom limits
update(faces) == update_in(min_zoom, max_zoom, faces)

---------------------------------------------------------------------------
(* FaceDetector *)

\* DETECT_WIDTH, and the frame size (the camera's default resolution)
DETECT_WIDTH == 320
frame_width == 1280
frame_height == 720
\* max_faces and _detect_interval
max_faces == 5
detect_interval == 3

\* detect() is called only while the frame counter is below this cap
MaxFrames == 9

\* small_height = int(height * (DETECT_WIDTH / width))
small_height == (frame_height * DETECT_WIDTH) \div frame_width

\* a rectangle of detectMultiScale (detector-space pixels) as a FaceDetection
to_face(r) ==
    [x |-> RoundDiv(r[1] * ONE, DETECT_WIDTH),
     y |-> RoundDiv(r[2] * ONE, small_height),
     width |-> RoundDiv(r[3] * ONE, DETECT_WIDTH),
     height |-> RoundDiv(r[4] * ONE, small_height)]

\* detected_faces[:max_faces], each converted
to_faces(rects) ==
    [i \in 1..Min(Len(rects), max_faces) |-> to_face(rects[i])]

DetectionResult(faces, ms) == [faces |-> faces, processing_time_ms |-> ms]

\* What detectMultiScale does when invoked: it returns no rectangle, one, or
\* six (one more than max_faces), or it raises.
OneRect == << <<192, 72, 48, 36>> >>
SixRects == << <<0, 0, 32, 36>>, <<40, 0, 32, 36>>, <<80, 0, 32, 36>>,
               <<120, 0, 32, 36>>, <<160, 0, 32, 36>>, <<200, 0, 32, 36>> >>
CascadeOutcomes ==
    { [raises |-> FALSE, rects |-> <<>>],
      [raises |-> FALSE, rects |-> OneRect],
      [raises |-> FALSE, rects |-> SixRects],
      [raises |-> TRUE, rects |-> <<>>] }

\* measured processing times, in ms
ProcessingTimes == {1, 2}

DetectorInit ==
    /\ frame_count = 0
    /\ last_result = <<>>
    /\ cascade_last = "none"
    /\ detect_ret = [status |-> "none", result |-> <<>>]

\* the frame-skipping test, made after the counter is incremented to count
use_cached_ignoring_force(force, cached, count) ==
    cached # <<>> /\ count % detect_interval # 0

use_cached(force, cached, count) ==
    ~force /\ cached # <<>> /\ count % detect_interval # 0

detect(force, outcome, ms) ==
    /\ frame_count < MaxFrames
    /\ frame_count' = frame_count + 1
    /\ IF use_cached(force, last_result, frame_count + 1)
       THEN /\ detect_ret' = [status |-> "returned", result |-> last_result]
            /\ cascade_last' = "none"
            /\ UNCHANGED last_result
       ELSE IF outcome.raises
            THEN \* the exception of detectMultiScale leaves detect()
                 /\ cascade_last' = "raised"
                 /\ detect_ret' = [status |-> "raised", result |-> <<>>]
                 /\ UNCHANGED last_result
            ELSE /\ cascade_last' = "returned"
                 /\ last_result' = <<DetectionResult(to_faces(outcome.rects), ms)>>
                 /\ detect_ret' = [status |-> "returned", result |-> last_result']

---------------------------------------------------------------------------
(* FaceTracker *)

\* a bounding box is the pixel tuple <<x, y, w, h>>
TrackedFace(id, bbox, confidence, fsd, lost) ==
    [tracking_id |-> id, bbox |-> bbox, confidence |-> confidence,
     frames_since_detection |-> fsd, is_lost |-> lost]

\* max_frames_without_detection, kept small so that tracks time out
max_frames_lost == 2

\* no more than MaxIds identities are issued in a run
MaxIds == 4

\* the default iou_threshold of refresh_tracks, in hundredths
iou_threshold == 30

\* _calculate_iou: the quotient inter_area / union_area is kept as the
\* pair <<inter_area, union_area>> with union_area > 0; 0.0 is <<0, 1>>
calculate_iou_double_counts(bbox1, bbox2) ==
    LET inter_x1 == Max(bbox1[1], bbox2[1])
        inter_y1 == Max(bbox1[2], bbox2[2])
        inter_x2 == Min(bbox1[1] + bbox1[3], bbox2[1] + bbox2[3])
        inter_y2 == Min(bbox1[2] + bbox1[4], bbox2[2] + bbox2[4])
        inter_area == (inter_x2 - inter_x1) * (inter_y2 - inter_y1)
        union_area == bbox1[3] * bbox1[4] + bbox2[3] * bbox2[4]
    IN  IF inter_x2 <= inter_x1 \/ inter_y2 <= inter_y1
        THEN <<0, 1>>
        ELSE IF union_area > 0 THEN <<inter_area, union_area>> ELSE <<0, 1>>

calculate_iou(bbox1, bbox2) ==
    LET x1 == bbox1[1]
        y1 == bbox1[2]
        w1 == bbox1[3]
        h1 == bbox1[4]
        x2 == bbox2[1]
        y2 == bbox2[2]
        w2 == bbox2[3]
        h2 == bbox2[4]
        inter_x1 == Max(x1, x2)
        inter_y1 == Max(y1, y2)
        inter_x2 == Min(x1 + w1, x2 + w2)
        inter_y2 == Min(y1 + h1, y2 + h2)
        inter_area == (inter_x2 - inter_x1) * (inter_y2 - inter_y1)
        area1 == w1 * h1
        area2 == w2 * h2
        union_area == area1 + area2 - inter_area
    IN  IF inter_x2 <= inter_x1 \/ inter_y2 <= inter_y1
        THEN <<0, 1>>
        ELSE IF union_area > 0 THEN <<inter_area, union_area>> ELSE <<0, 1>>

\* comparisons of two quotients, and of a quotient with hundredths
iou_gt(a, b) == a[1] * b[2] > b[1] * a[2]
iou_eq(a, b) == a[1] * b[2] = b[1] * a[2]
iou_ge(a, hundredths) == 100 * a[1] >= hundredths * a[2]

\* best_track_id = None
NoTrack == -1

\* the inner loop of refresh_tracks over the tracks, from the k-th on
RECURSIVE best_track(_, _, _, _, _, _)
best_track(table, det_bbox, matched_tracks, k, best_iou, best_track_id) ==
    IF k > Len(table)
    THEN best_track_id
    ELSE LET tracked == table[k]
             iou == calculate_iou(tracked.bbox, det_bbox)
         IN  IF tracked.tracking_id \in matched_tracks
             THEN best_track(table, det_bbox, matched_tracks, k + 1,
                             best_iou, best_track_id)
             ELSE IF iou_gt(iou, best_iou) /\ iou_ge(iou, iou_threshold)
             THEN best_track(table, det_bbox, matched_tracks, k + 1,
                             iou, tracked.tracking_id)
             ELSE best_track(table, det_bbox, matched_tracks, k + 1,
                             best_iou, best_track_id)

\* the outer loop of refresh_tracks over the detections, from the i-th on:
\* the track matched to each detection (NoTrack if none)
RECURSIVE match_detections(_, _, _, _)
match_detections(table, detections, i, assigned) ==
    IF i > Len(detections)
    THEN assigned
    ELSE LET matched_tracks == { assigned[j] : j \in 1..Len(assigned) } \ {NoTrack}
             best == best_track(table, detections[i], matched_tracks, 1,
                                <<0, 1>>, NoTrack)
         IN  match_detections(table, detections, i + 1, Append(assigned, best))

\* the detections that matched no track, in the order of the list
unmatched_detections(detections, assigned) ==
    LET indices == [i \in 1..Len(detections) |-> i]
        unmatched == SelectSeq(indices, LAMBDA i : assigned[i] = NoTrack)
    IN  [j \in 1..Len(unmatched) |-> detections[unmatched[j]]]

\* new tracks for a list of boxes, with the next identities
new_tracks(boxes, first_id) ==
    [j \in 1..Len(boxes) |-> TrackedFace(first_id + j - 1, boxes[j], 100, 0, FALSE)]

\* what tracker.update() returns for one track: the success flag and a box
\* of floats, in tenths of a pixel
PredictorResults ==
    { [success |-> FALSE, bbox |-> <<0, 0, 0, 0>>],
      [success |-> TRUE, bbox |-> <<3, 4, 109, 102>>],
      [success |-> TRUE, bbox |-> <<57, -5, 109, 102>>] }

\* int(v) of a float: truncation toward zero
to_int(v) == IF v >= 0 THEN v \div 10 ELSE -((-v) \div 10)

\* the detection lists given to init_tracks and refresh_tracks
BoxA == <<0, 0, 10, 10>>
BoxB == <<5, 0, 10, 10>>
BoxC == <<100, 100, 10, 10>>
DetectionLists == { <<>>, <<BoxA>>, <<BoxB, BoxC>> }

TrackerInit ==
    /\ tracked_faces = <<>>
    /\ next_id = 0
    /\ tracker_ret = [op |-> "none", faces |-> <<>>, failed |-> {}]

init_tracks(detections) ==
    /\ next_id + Len(detections) <= MaxIds
    /\ tracked_faces' = new_tracks(detections, next_id)
    /\ next_id' = next_id + Len(detections)
    /\ tracker_ret' = [op |-> "init_tracks", faces |-> tracked_faces', failed |-> {}]

\* one iteration of the loop of update: the track after its predictor ran
update_track_keeps_confidence(tracked, result) ==
    LET fsd == tracked.frames_since_detection + 1
    IN  [tracking_id |-> tracked.tracking_id,
         bbox |-> IF result.success
                  THEN [n \in 1..4 |-> to_int(result.bbox[n])]
                  ELSE tracked.bbox,
         confidence |-> tracked.confidence,
         frames_since_detection |-> fsd,
         is_lost |-> tracked.is_lost \/ ~result.success \/ fsd > max_frames_lost]

update_track_resets_age(tracked, result) ==
    [tracking_id |-> tracked.tracking_id,
     bbox |-> tracked.bbox,
     confidence |-> tracked.confidence,
     frames_since_detection |-> IF result.success THEN 0
                                ELSE tracked.frames_since_detection + 1,
     is_lost |-> tracked.is_lost \/ ~result.success]

update_track(tracked, result) ==
    LET fsd == tracked.frames_since_detection + 1
    IN  [tracking_id |-> tracked.tracking_id,
         bbox |-> IF result.success
                  THEN [n \in 1..4 |-> to_int(result.bbox[n])]
                  ELSE tracked.bbox,
         confidence |-> IF result.success
                        THEN Max(50, 100 - fsd * 2)
                        ELSE tracked.confidence,
         frames_since_detection |-> fsd,
         is_lost |-> tracked.is_lost \/ ~result.success \/ fsd > max_frames_lost]

\* the removal of the lost tracks at the end of update
remove_lost_keeps_failed(table, results) ==
    SelectSeq(table, LAMBDA t : t.frames_since_detection <= max_frames_lost)

remove_lost(table, results) ==
    LET lost_ids == { table[k].tracking_id : k \in { n \in 1..Len(table) :
                          \/ ~results[n].success
                          \/ table[n].frames_since_detection > max_frames_lost } }
    IN  SelectSeq(table, LAMBDA t : t.tracking_id \notin lost_ids)

update_tracks(results) ==
    LET updated == [k \in 1..Len(tracked_faces) |->
                        update_track(tracked_faces[k], results[k])]
    IN  /\ tracked_faces' = remove_lost(updated, results)
        /\ tracker_ret' =
               [op |-> "update", faces |-> tracked_faces',
                failed |-> { tracked_faces[k].tracking_id :
                               k \in { n \in 1..Len(tracked_faces) :
                                         ~results[n].success } }]
        /\ UNCHANGED next_id

\* a matched track: the bounding box of its detection, and its age kept
refresh_track_keeps_age(t, det_bbox) ==
    [t EXCEPT !.bbox = det_bbox, !.confidence = 100]

\* a matched track: the bounding box of its detection, confidence 1.0 and
\* frames_since_detection 0
refresh_track(t, det_bbox) ==
    [t EXCEPT !.bbox = det_bbox, !.confidence = 100,
              !.frames_since_detection = 0]

refresh_tracks(detections) ==
    IF detections = <<>>
    THEN /\ tracker_ret' = [op |-> "refresh_tracks", faces |-> tracked_faces,
                            failed |-> {}]
         /\ UNCHANGED <<tracked_faces, next_id>>
    ELSE IF tracked_faces = <<>>
    THEN /\ next_id + Len(detections) <= MaxIds
         /\ tracked_faces' = new_tracks(detections, next_id)
         /\ next_id' = next_id + Len(detections)
         /\ tracker_ret' = [op |-> "refresh_tracks", faces |-> tracked_faces',
                            failed |-> {}]
    ELSE LET assigned == match_detections(tracked_faces, detections, 1, <<>>)
             matched(t) == { i \in 1..Len(detections) : assigned[i] = t.tracking_id }
             refreshed == [k \in 1..Len(tracked_faces) |->
                 LET t == tracked_faces[k]
                 IN  IF matched(t) = {}
                     THEN t
                     ELSE refresh_track(t, detections[CHOOSE i \in matched(t) : TRUE])]
             created == unmatched_detections(detections, assigned)
         IN  /\ next_id + Len(created) <= MaxIds
             /\ tracked_faces' = refreshed \o new_tracks(created, next_id)
             /\ next_id' = next_id + Len(created)
             /\ tracker_ret' = [op |-> "refresh_tracks", faces |-> tracked_faces',
                                failed |-> {}]

clear_resets_next_id ==
    /\ tracked_faces' = <<>>
    /\ next_id' = 0
    /\ tracker_ret' = [op |-> "clear", faces |-> <<>>, failed |-> {}]

clear ==
    /\ tracked_faces' = <<>>
    /\ tracker_ret' = [op |-> "clear", faces |-> <<>>, failed |-> {}]
    /\ UNCHANGED next_id

---------------------------------------------------------------------------
(* CropRegion in floating point *)

\* The coordinates of a CropRegion are Python floats.  The format below is
\* binary floating point with SignificandBits bits of precision; a value
\* is counted in units of the format's smallest spacing, and every
\* operation rounds its exact result to the nearest value of the format,
\* ties to the even significand.
SignificandBits == 3

\* 1.0
FloatOne == 8 * 4

\* the spacing of the format's values around the magnitude m
RECURSIVE spacing(_)
spacing(m) == IF m < 2 ^ SignificandBits THEN 1 ELSE 2 * spacing(m \div 2)

\* the quotient n / d (d > 0) rounded to the format
round_float(n, d) ==
    LET mag == Abs(n)
        s == spacing(mag \div d)
        q == mag \div (d * s)
        r == mag - q * d * s
        up == 2 * r > d * s \/ (2 * r = d * s /\ q % 2 = 1)
        m == (IF up THEN q + 1 ELSE q) * s
    IN  IF n >= 0 THEN m ELSE -m

\* a + b, a - b, and a * factor for a factor in hundredths
float_add(a, b) == round_float(a + b, 1)
float_sub(a, b) == round_float(a - b, 1)
float_mul(a, factor) == round_float(a * factor, 100)

\* CropRegion.right and CropRegion.bottom
right_float(c) == float_add(c.x, c.width)
bottom_float(c) == float_add(c.y, c.height)

\* clamp with the size bounded by 1.0 instead of 1.0 - origin
clamp_float_unit_size(c) ==
    LET x == Max(0, Min(c.x, float_sub(FloatOne, c.width)))
        y == Max(0, Min(c.y, float_sub(FloatOne, c.height)))
    IN  CropRegion(x, y, Min(c.width, FloatOne), Min(c.height, FloatOne))

clamp_float(c) ==
    LET x == Max(0, Min(c.x, float_sub(FloatOne, c.width)))
        y == Max(0, Min(c.y, float_sub(FloatOne, c.height)))
        width == Min(c.width, float_sub(FloatOne, x))
        height == Min(c.height, float_sub(FloatOne, y))
    IN  CropRegion(x, y, width, height)

\* lerp that keeps the start region whatever the factor
lerp_float_stays(c, target, factor) ==
    CropRegion(float_add(c.x, float_mul(float_sub(target.x, c.x), 0)),
               float_add(c.y, float_mul(float_sub(target.y, c.y), 0)),
               float_add(c.width, float_mul(float_sub(target.width, c.width), 0)),
               float_add(c.height, float_mul(float_sub(target.height, c.height), 0)))

lerp_float(c, target, factor) ==
    CropRegion(float_add(c.x, float_mul(float_sub(target.x, c.x), factor)),
               float_add(c.y, float_mul(float_sub(target.y, c.y), factor)),
               float_add(c.width, float_mul(float_sub(target.width, c.width), factor)),
               float_add(c.height, float_mul(float_sub(target.height, c.height), factor)))

\* a * b and a / b of two floats (b > 0)
float_times(a, b) == round_float(a * b, FloatOne)
float_div(a, b) == round_float(a * FloatOne, b)

\* config.aspect_ratio = 16 / 9, and 1.0 / min_zoom, 1.0 / max_zoom
aspect_ratio_float == round_float(aspect_w * FloatOne, aspect_h)
max_size_float == round_float(FloatOne * 10, min_zoom)
min_size_float == round_float(FloatOne * 10, max_zoom)

\* the zoom limits left out
zoom_limits_float_none(region_width) == region_width

\* region_width = max(min_size, min(max_size, region_width))
zoom_limits_float(region_width) ==
    Max(min_size_float, Min(max_size_float, region_width))

\* _calculate_target_crop in floats: the crop built from the faces fs,
\* before the final clamp()
unclamped_crop_float(fs) ==
    LET idx == 1..Len(fs)
        min_x0 == SetMin({fs[i].x : i \in idx})
        min_y0 == SetMin({fs[i].y : i \in idx})
        max_x0 == SetMax({float_add(fs[i].x, fs[i].width) : i \in idx})
        max_y0 == SetMax({float_add(fs[i].y, fs[i].height) : i \in idx})
        face_width == float_sub(max_x0, min_x0)
        face_height == float_sub(max_y0, min_y0)
        padding_x == float_mul(face_width, face_padding)
        padding_y == float_mul(face_height, face_padding)
        min_x1 == Max(0, float_sub(min_x0, padding_x))
        min_y1 == Max(0, float_sub(min_y0, padding_y))
        max_x == Min(FloatOne, float_add(max_x0, padding_x))
        max_y == Min(FloatOne, float_add(max_y0, padding_y))
        region_width0 == float_sub(max_x, min_x1)
        region_height0 == float_sub(max_y, min_y1)
        current_ratio == IF region_height0 > 0
                         THEN float_div(region_width0, region_height0)
                         ELSE aspect_ratio_float
        too_wide == current_ratio > aspect_ratio_float
        new_height == float_div(region_width0, aspect_ratio_float)
        new_width == float_times(region_height0, aspect_ratio_float)
        height_increase == float_sub(new_height, region_height0)
        width_increase == float_sub(new_width, region_width0)
        min_y == IF too_wide
                 THEN Max(0, float_sub(min_y1, round_float(height_increase, 2)))
                 ELSE min_y1
        min_x == IF too_wide
                 THEN min_x1
                 ELSE Max(0, float_sub(min_x1, round_float(width_increase, 2)))
        region_width1 == IF too_wide THEN region_width0 ELSE new_width
        region_width == zoom_limits_float(region_width1)
        region_height == float_div(region_width, aspect_ratio_float)
        face_center_x == round_float(float_add(min_x, max_x), 2)
        face_center_y == round_float(float_add(min_y, max_y), 2)
        crop_x == float_sub(face_center_x, round_float(region_width, 2))
        crop_y == float_sub(face_center_y, round_float(region_height, 2))
    IN  CropRegion(crop_x, crop_y, region_width, region_height)

\* the faces given to the float computation: one or two faces, origins from
\* 0 to 0.875 and sizes from 1/16 to 0.5
FloatFaces ==
    { CropRegion(x, y, w, h) :
        x \in {0, 8, 16, 24}, y \in {0, 10, 20, 24, 28},
        w \in {2, 4, 8, 16}, h \in {2, 4, 5, 8, 16} }
FloatFaceLists ==
    { <<f>> : f \in FloatFaces }
    \cup { <<f, CropRegion(20, 12, 6, 4)>> : f \in FloatFaces }

\* _calculate_target_crop(result) in floats, all faces framed
call_target_crop_float ==
    /\ call_ret = <<>>
    /\ call_ret' = <<clamp_float(unclamped_crop_float(call_args))>>
    /\ UNCHANGED call_args

\* the floats from -2.0 to 2.0
FloatValues == { v \in -2 * FloatOne..2 * FloatOne : round_float(v, 1) = v }

\* the regions given to clamp: every origin and size on the x axis, with
\* an in-range, a negative-origin and an oversized y axis
ClampInputs ==
    { CropRegion(x, yh[1], w, yh[2]) :
        x \in FloatValues, w \in FloatValues,
        yh \in { <<5, 20>>, <<-6, 24>>, <<12, 48>> } }

\* the regions and factors given to lerp
LerpRegions ==
    { CropRegion(x, 0, wh[1], wh[2]) :
        x \in FloatValues, wh \in { <<FloatOne, FloatOne>>, <<7, -2>> } }
LerpFactors == {0, 25, 50, 100}
LerpInputs == [a : LerpRegions, b : LerpRegions, factor : LerpFactors]

\* int(v) of the float n / d: truncation toward zero
trunc_div(n, d) == IF n >= 0 THEN n \div d ELSE -((-n) \div d)

\* CropRegion.to_pixels
to_pixels(c, w, h) ==
    [x |-> trunc_div(c.x * w, ONE), y |-> trunc_div(c.y * h, ONE),
     cw |-> trunc_div(c.width * w, ONE), ch |-> trunc_div(c.height * h, ONE)]

\* the length of the slice a[start:stop] of an axis of length n, start >= 0
slice_len(start, stop, n) ==
    LET first == Min(start, n)
        last == IF stop < 0 THEN Max(stop + n, 0) ELSE Min(stop, n)
    IN  Max(0, last - first)

\* cv2.resize raises on an empty source image
resize(rows, cols) ==
    IF rows = 0 \/ cols = 0
    THEN [raised |-> TRUE, rows |-> rows, cols |-> cols]
    ELSE [raised |-> FALSE, rows |-> rows, cols |-> cols]

\* the pixel rectangle of apply_crop with the origin moved into the frame
\* and the size left as to_pixels gave it
pixel_rect_unclipped(frame, crop) ==
    LET h == frame[1]
        w == frame[2]
        px == to_pixels(crop, w, h)
    IN  [x |-> Max(0, Min(px.x, w - px.cw)),
         y |-> Max(0, Min(px.y, h - px.ch)),
         cw |-> px.cw, ch |-> px.ch]

\* "Ensure valid bounds" of apply_crop: the pixel rectangle it slices out of
\* a frame of shape (h, w)
pixel_rect(frame, crop) ==
    LET h == frame[1]
        w == frame[2]
        px == to_pixels(crop, w, h)
        x == Max(0, Min(px.x, w - px.cw))
        y == Max(0, Min(px.y, h - px.ch))
        cw == Min(px.cw, w - x)
        ch == Min(px.ch, h - y)
    IN  [x |-> x, y |-> y, cw |-> cw, ch |-> ch]

\* apply_crop of a frame of shape (h, w): whether it raised, and the size
\* of the part of the frame handed to cv2.resize
apply_crop(frame, crop) ==
    LET h == frame[1]
        w == frame[2]
        r == pixel_rect(frame, crop)
    IN  resize(slice_len(r.y, r.y + r.ch, h), slice_len(r.x, r.x + r.cw, w))

\* the frame shapes (h, w) and the crops given to apply_crop: every origin
\* and size of a coarse grid, sizes of zero and of less than one pixel
\* included
FrameShapes == { <<90, 160>>, <<9, 16>> }
CropOrigins == {0, 800, 1592}
CropSizes == {0, 5, 8, 800, 1600}
ApplyCropInputs ==
    [frame : FrameShapes,
     crop : { CropRegion(x, y, cw, ch) :
                x \in CropOrigins, y \in CropOrigins,
                cw \in CropSizes, ch \in CropSizes }]

call_apply_crop ==
    /\ call_ret = <<>>
    /\ call_ret' = <<apply_crop(call_args.frame, call_args.crop)>>
    /\ UNCHANGED call_args

\* the frames and crops of the pixel rectangle: origins left of and above
\* the frame, crops reaching past the right and bottom edges, sizes larger
\* than the frame, and a frame whose sides do not divide the grid
PixelFrameShapes == { <<90, 160>>, <<9, 16>>, <<7, 13>> }
PixelOrigins == {-800, 0, 800, 1592}
PixelSizes == {0, 8, 800, 1600, 2400}
PixelRectInputs ==
    [frame : PixelFrameShapes,
     crop : { CropRegion(x, y, cw, ch) :
                x \in PixelOrigins, y \in PixelOrigins,
                cw \in PixelSizes, ch \in PixelSizes }]

\* apply_crop up to the slice: the rectangle and the shape of the slice
\* frame[y:y+ch, x:x+cw]
call_pixel_rect ==
    /\ call_ret = <<>>
    /\ call_ret' =
           LET r == pixel_rect(call_args.frame, call_args.crop)
           IN  <<[rect |-> r,
                  rows |-> slice_len(r.y, r.y + r.ch, call_args.frame[1]),
                  cols |-> slice_len(r.x, r.x + r.cw, call_args.frame[2])]>>
    /\ UNCHANGED call_args

\* the pixel boxes given to _calculate_iou, degenerate and negative sizes
\* included
IouBoxes ==
    { <<x, y, w, h>> : x \in 0..3, w \in -1..3, y \in {0, 2}, h \in {-1, 0, 2} }
IouInputs == [a : IouBoxes, b : IouBoxes]

call_iou ==
    /\ call_ret = <<>>
    /\ call_ret' = <<calculate_iou(call_args.a, call_args.b)>>
    /\ UNCHANGED call_args

\* the matching of refresh_tracks: track tables of one or two tracks, in the
\* order of their identities, and lists of one to three detections, in
\* every order
BoxD == <<2, 0, 10, 10>>
MatchBoxes == {BoxA, BoxB, BoxC, BoxD}
MatchTables ==
    { new_tracks(boxes, 0) : boxes \in UNION { [1..n -> MatchBoxes] : n \in 1..2 } }
MatchDetections == UNION { [1..n -> MatchBoxes] : n \in 1..3 }
MatchInputs == [table : MatchTables, detections : MatchDetections]

\* the first loop of refresh_tracks: the track matched to each detection
call_match_detections ==
    /\ call_ret = <<>>
    /\ call_ret' = <<match_detections(call_args.table, call_args.detections,
                                      1, <<>>)>>
    /\ UNCHANGED call_args

\* _calculate_target_crop(result) of an engine configured with the framing
\* mode call_args.mode
call_target_crop ==
    /\ call_ret = <<>>
    /\ call_ret' = <<target_crop_of(framed_faces_in(call_args.mode,
                                                    call_args.faces))>>
    /\ UNCHANGED call_args

call_clamp ==
    /\ call_ret = <<>>
    /\ call_ret' = <<clamp_float(call_args)>>
    /\ UNCHANGED call_args

call_lerp ==
    /\ call_ret = <<>>
    /\ call_ret' = <<lerp_float(call_args.a, call_args.b, call_args.factor)>>
    /\ UNCHANGED call_args

---------------------------------------------------------------------------
(* CameraCapture *)

\* start() opens the camera at most MaxStarts times, and the camera
\* delivers at most MaxReads frames
MaxStarts == 2
MaxReads == 2

\* self._capture = None, self._thread = None, self._current_frame = None
None == 0

\* _set_state: the assignment and the signal, if the state differs
set_state(new_state) ==
    /\ state' = new_state
    /\ emitted' = IF state # new_state
                  THEN << [signal |-> "state_changed", value |-> new_state] >>
                  ELSE <<>>

CameraInit ==
    /\ running = FALSE
    /\ state = "DISCONNECTED"
    /\ capture = None
    /\ thread = None
    /\ current_frame = None
    /\ captures = <<>>
    /\ threads = <<>>
    /\ frames_read = 0
    /\ emitted = <<>>
    /\ main_pc = "idle"
    /\ camera_ret = [op |-> "none", value |-> FALSE]

\* start(): the test of _running and the CONNECTING state
start_begin ==
    /\ main_pc = "idle"
    /\ IF running
       THEN /\ camera_ret' = [op |-> "start", value |-> TRUE]
            /\ emitted' = <<>>
            /\ UNCHANGED <<state, main_pc>>
       ELSE /\ Len(captures) < MaxStarts
            /\ set_state("CONNECTING")
            /\ main_pc' = "start_open"
            /\ UNCHANGED camera_ret
    /\ UNCHANGED <<running, capture, thread, current_frame, captures, threads,
                   frames_read>>

\* start(): cv2.VideoCapture(...) and the isOpened() test
start_open(opened) ==
    /\ main_pc = "start_open"
    /\ captures' = Append(captures, IF opened THEN "opened" ELSE "unopened")
    /\ capture' = Len(captures) + 1
    /\ IF opened
       THEN /\ main_pc' = "start_run"
            /\ emitted' = <<>>
            /\ UNCHANGED <<state, camera_ret>>
       ELSE /\ set_state("ERROR")
            /\ main_pc' = "idle"
            /\ camera_ret' = [op |-> "start", value |-> FALSE]
    /\ UNCHANGED <<running, thread, current_frame, threads, frames_read>>

\* start(): self._running = True
start_run ==
    /\ main_pc = "start_run"
    /\ running' = TRUE
    /\ main_pc' = "start_thread"
    /\ emitted' = <<>>
    /\ UNCHANGED <<state, capture, thread, current_frame, captures, threads,
                   frames_read, camera_ret>>

\* start(): the capture thread is created and started
start_thread ==
    /\ main_pc = "start_thread"
    /\ threads' = Append(threads, [pc |-> "loop", handle |-> None, frame |-> None])
    /\ thread' = Len(threads) + 1
    /\ main_pc' = "start_connected"
    /\ emitted' = <<>>
    /\ UNCHANGED <<running, state, capture, current_frame, captures,
                   frames_read, camera_ret>>

\* start(): the CONNECTED state and the return
start_connected ==
    /\ main_pc = "start_connected"
    /\ set_state("CONNECTED")
    /\ main_pc' = "idle"
    /\ camera_ret' = [op |-> "start", value |-> TRUE]
    /\ UNCHANGED <<running, capture, thread, current_frame, captures, threads,
                   frames_read>>

\* stop(): self._running = False
stop_begin ==
    /\ main_pc = "idle"
    /\ running' = FALSE
    /\ main_pc' = IF thread # None THEN "stop_join" ELSE "stop_release"
    /\ emitted' = <<>>
    /\ UNCHANGED <<state, capture, thread, current_frame, captures, threads,
                   frames_read, camera_ret>>

\* stop(): join(timeout=1.0) returns when the thread has ended, or after
\* the timeout while the thread is blocked in read()
stop_join ==
    /\ main_pc = "stop_join"
    /\ threads[thread].pc \in {"done", "reading"}
    /\ thread' = None
    /\ main_pc' = "stop_release"
    /\ emitted' = <<>>
    /\ UNCHANGED <<running, state, capture, current_frame, captures, threads,
                   frames_read, camera_ret>>

\* stop(): the capture is released and cleared
stop_release ==
    /\ main_pc = "stop_release"
    /\ IF capture # None
       THEN /\ captures' = [captures EXCEPT ![capture] = "released"]
            /\ capture' = None
       ELSE UNCHANGED <<captures, capture>>
    /\ main_pc' = "stop_state"
    /\ emitted' = <<>>
    /\ UNCHANGED <<running, state, thread, current_frame, threads,
                   frames_read, camera_ret>>

\* stop(): the DISCONNECTED state and the return
stop_state ==
    /\ main_pc = "stop_state"
    /\ set_state("DISCONNECTED")
    /\ main_pc' = "idle"
    /\ camera_ret' = [op |-> "stop", value |-> TRUE]
    /\ UNCHANGED <<running, capture, thread, current_frame, captures, threads,
                   frames_read>>

\* _capture_loop of thread t: the while test, and the call of read() on
\* the capture
loop_test(t) ==
    /\ threads[t].pc = "loop"
    /\ threads' = [threads EXCEPT ![t] =
                       IF running /\ capture # None
                       THEN [pc |-> "reading", handle |-> capture, frame |-> None]
                       ELSE [pc |-> "done", handle |-> None, frame |-> None]]
    /\ emitted' = <<>>
    /\ UNCHANGED <<running, state, capture, thread, current_frame, captures,
                   frames_read, main_pc, camera_ret>>

\* _capture_loop: read() returns; only an open capture delivers a frame
read_returns(t, ok) ==
    /\ threads[t].pc = "reading"
    /\ ok => (captures[threads[t].handle] = "opened" /\ frames_read < MaxReads)
    /\ IF ok
       THEN /\ frames_read' = frames_read + 1
            /\ threads' = [threads EXCEPT ![t].pc = "got_frame",
                                          ![t].frame = frames_read + 1]
       ELSE /\ threads' = [threads EXCEPT ![t].pc = "failed"]
            /\ UNCHANGED frames_read
    /\ emitted' = <<>>
    /\ UNCHANGED <<running, state, capture, thread, current_frame, captures,
                   main_pc, camera_ret>>

\* _capture_loop: the frame is stored under the lock and frame_ready emitted
publish(t) ==
    /\ threads[t].pc = "got_frame"
    /\ current_frame' = threads[t].frame
    /\ emitted' = << [signal |-> "frame_ready", value |-> threads[t].frame] >>
    /\ threads' = [threads EXCEPT ![t].pc = "loop"]
    /\ UNCHANGED <<running, state, capture, thread, captures, frames_read,
                   main_pc, camera_ret>>

\* _capture_loop: the else branch of a failed read
read_failed_keeps_looping(t) ==
    /\ threads[t].pc = "failed"
    /\ set_state("ERROR")
    /\ threads' = [threads EXCEPT ![t].pc = "loop"]
    /\ UNCHANGED <<running, capture, thread, current_frame, captures,
                   frames_read, main_pc, camera_ret>>

read_failed(t) ==
    /\ threads[t].pc = "failed"
    /\ set_state("ERROR")
    /\ threads' = [threads EXCEPT ![t].pc = "done"]
    /\ UNCHANGED <<running, capture, thread, current_frame, captures,
                   frames_read, main_pc, camera_ret>>

---------------------------------------------------------------------------
(* VirtualCameraOutput *)

\* start() creates at most MaxDevices devices, and a device is given at
\* most MaxSends frames
MaxDevices == 2
MaxSends == 2

\* VirtualCameraOutput.BACKENDS, in the order start() tries them
BACKENDS == <<"unitycapture", "obs">>

\* the frames given to send_frame: of the sink's size, of another size
\* (resized), empty (cv2.resize raises) and None (frame.shape raises)
SinkFrames == {"sink_size", "other_size", "empty", "none"}

SinkInit ==
    /\ sink_running = FALSE
    /\ cam = None
    /\ backend_used = "None"
    /\ devices = <<>>
    /\ send_pc = "idle"
    /\ send_arg = "none"
    /\ sink_ret = [op |-> "none", value |-> FALSE, raised |-> FALSE,
                   sent |-> FALSE, tried |-> <<>>]

\* the property is_running
sink_is_running == sink_running /\ cam # None

\* the index of the last backend that opens, 0 if none does
first_backend_last(opens) ==
    IF \E b \in 1..Len(BACKENDS) : opens[b]
    THEN CHOOSE b \in 1..Len(BACKENDS) :
             opens[b] /\ \A a \in (b + 1)..Len(BACKENDS) : ~opens[a]
    ELSE 0

\* the index of the first backend that opens, 0 if none does
first_backend(opens) ==
    IF \E b \in 1..Len(BACKENDS) : opens[b]
    THEN CHOOSE b \in 1..Len(BACKENDS) :
             opens[b] /\ \A a \in 1..(b - 1) : ~opens[a]
    ELSE 0

\* the pyvirtualcam.Camera(backend=...) calls of the loop of start(), in
\* order, each with its outcome: the loop ends with the first call that
\* returns a device
start_attempts(opens) ==
    LET last == IF first_backend(opens) # 0 THEN first_backend(opens)
                ELSE Len(BACKENDS)
    IN  [b \in 1..last |-> [backend |-> BACKENDS[b], opened |-> opens[b]]]

\* start(): opens[b] tells whether pyvirtualcam.Camera(backend=BACKENDS[b])
\* returns a device (TRUE) or raises (FALSE)
sink_start(opens) ==
    /\ IF ~VIRTUAL_CAM_AVAILABLE
       THEN /\ sink_ret' = [op |-> "start", value |-> FALSE, raised |-> FALSE,
                            sent |-> FALSE, tried |-> <<>>]
            /\ UNCHANGED <<sink_running, cam, backend_used, devices>>
       ELSE IF sink_running
       THEN /\ sink_ret' = [op |-> "start", value |-> TRUE, raised |-> FALSE,
                            sent |-> FALSE, tried |-> <<>>]
            /\ UNCHANGED <<sink_running, cam, backend_used, devices>>
       ELSE IF first_backend(opens) # 0
       THEN /\ Len(devices) < MaxDevices
            /\ devices' = Append(devices,
                                 [backend |-> BACKENDS[first_backend(opens)],
                                  state |-> "open", sent |-> 0, failed |-> 0])
            /\ cam' = Len(devices) + 1
            /\ sink_running' = TRUE
            /\ backend_used' = BACKENDS[first_backend(opens)]
            /\ sink_ret' = [op |-> "start", value |-> TRUE, raised |-> FALSE,
                            sent |-> FALSE, tried |-> start_attempts(opens)]
       ELSE /\ sink_ret' = [op |-> "start", value |-> FALSE, raised |-> FALSE,
                            sent |-> FALSE, tried |-> start_attempts(opens)]
            /\ UNCHANGED <<sink_running, cam, backend_used, devices>>
    /\ UNCHANGED <<VIRTUAL_CAM_AVAILABLE, send_pc, send_arg>>

\* stop(), the whole body under the lock
sink_stop ==
    /\ IF cam # None
       THEN devices' = [devices EXCEPT ![cam].state = "closed"]
       ELSE UNCHANGED devices
    /\ cam' = None
    /\ sink_running' = FALSE
    /\ backend_used' = "None"
    /\ sink_ret' = [op |-> "stop", value |-> TRUE, raised |-> FALSE,
                    sent |-> FALSE, tried |-> <<>>]
    /\ UNCHANGED <<VIRTUAL_CAM_AVAILABLE, send_pc, send_arg>>

\* send_frame(frame): the test of _running and _cam, outside the lock
send_begin(frame) ==
    /\ send_pc = "idle"
    /\ \A d \in 1..Len(devices) :
           devices[d].sent + devices[d].failed < MaxSends
    /\ send_arg' = frame
    /\ IF ~sink_running \/ cam = None
       THEN /\ sink_ret' = [op |-> "send_frame", value |-> FALSE,
                            raised |-> FALSE, sent |-> FALSE, tried |-> <<>>]
            /\ UNCHANGED send_pc
       ELSE /\ send_pc' = "prepare"
            /\ UNCHANGED sink_ret
    /\ UNCHANGED <<VIRTUAL_CAM_AVAILABLE, sink_running, cam, backend_used,
                   devices>>

\* send_frame: frame.shape, cv2.resize and np.ascontiguousarray inside the
\* try, without the except clause
send_prepare_uncaught ==
    /\ send_pc = "prepare"
    /\ IF send_arg \in {"empty", "none"}
       THEN /\ sink_ret' = [op |-> "send_frame", value |-> FALSE,
                            raised |-> TRUE, sent |-> FALSE, tried |-> <<>>]
            /\ send_pc' = "idle"
       ELSE /\ send_pc' = "send"
            /\ UNCHANGED sink_ret
    /\ UNCHANGED <<VIRTUAL_CAM_AVAILABLE, sink_running, cam, backend_used,
                   devices, send_arg>>

\* send_frame: frame.shape, cv2.resize and np.ascontiguousarray inside the
\* try; an exception is caught and False returned
send_prepare ==
    /\ send_pc = "prepare"
    /\ IF send_arg \in {"empty", "none"}
       THEN /\ sink_ret' = [op |-> "send_frame", value |-> FALSE,
                            raised |-> FALSE, sent |-> FALSE, tried |-> <<>>]
            /\ send_pc' = "idle"
       ELSE /\ send_pc' = "send"
            /\ UNCHANGED sink_ret
    /\ UNCHANGED <<VIRTUAL_CAM_AVAILABLE, sink_running, cam, backend_used,
                   devices, send_arg>>

\* send_frame: under the lock, self._cam.send(frame) if _cam is not None;
\* accepted tells whether the device takes the frame or send raises
send_locked(accepted) ==
    /\ send_pc = "send"
    /\ IF cam = None
       THEN /\ sink_ret' = [op |-> "send_frame", value |-> TRUE,
                            raised |-> FALSE, sent |-> FALSE, tried |-> <<>>]
            /\ UNCHANGED devices
       ELSE IF accepted /\ devices[cam].state = "open"
       THEN /\ devices' = [devices EXCEPT ![cam].sent = @ + 1]
            /\ sink_ret' = [op |-> "send_frame", value |-> TRUE,
                            raised |-> FALSE, sent |-> TRUE, tried |-> <<>>]
       ELSE /\ devices' = [devices EXCEPT ![cam].failed = @ + 1]
            /\ sink_ret' = [op |-> "send_frame", value |-> FALSE,
                            raised |-> FALSE, sent |-> FALSE, tried |-> <<>>]
    /\ send_pc' = "idle"
    /\ UNCHANGED <<VIRTUAL_CAM_AVAILABLE, sink_running, cam, backend_used,
                   send_arg>>

---------------------------------------------------------------------------
(* MainWindow._on_frame_ready *)

\* frames delivered to the handler (a bound of the model)
MaxDeliveries == 3

\* the frame shapes (h, w) the camera delivers: the configured 1280x720,
\* which is also the size of the sink, and 640x480
WindowFrameShapes == { <<720, 1280>>, <<480, 640>> }

\* what the cascade does in a cycle of the handler
WindowCascadeOutcomes ==
    { [raises |-> FALSE, rects |-> <<>>],
      [raises |-> FALSE, rects |-> OneRect],
      [raises |-> TRUE, rects |-> <<>>] }

NoCycle == [frame |-> 0, shape |-> <<0, 0>>, detection |-> <<>>,
            crop |-> <<>>, processed |-> <<>>]

WindowInit ==
    /\ is_processing = FALSE
    /\ window_frame_count = 0
    /\ window_pc = "idle"
    /\ cycle = NoCycle
    /\ window_delivered = 0
    /\ window_ret = [op |-> "none", frame |-> 0]

\* the finally clause and the end of the call, normal or by an exception
window_finally(how) ==
    /\ is_processing' = FALSE
    /\ window_pc' = "idle"
    /\ window_ret' = [op |-> how, frame |-> cycle.frame]

\* an exception leaving the handler without the finally clause
window_raise_keeps_flag ==
    /\ window_pc' = "idle"
    /\ window_ret' = [op |-> "raised", frame |-> cycle.frame]
    /\ UNCHANGED is_processing

\* an exception raised by a stage: the finally clause runs
window_raise == window_finally("raised")

\* _on_frame_ready(frame): the guard, the flag and the frame counter
on_frame_ready(shape) ==
    /\ window_delivered < MaxDeliveries
    /\ window_delivered' = window_delivered + 1
    /\ IF is_processing
       THEN /\ window_ret' = [op |-> "dropped", frame |-> window_delivered + 1]
            /\ UNCHANGED <<is_processing, window_frame_count, window_pc, cycle>>
       ELSE /\ is_processing' = TRUE
            /\ window_frame_count' = window_frame_count + 1
            /\ window_pc' = "detect"
            /\ cycle' = [NoCycle EXCEPT !.frame = window_delivered + 1,
                                        !.shape = shape]
            /\ UNCHANGED window_ret
    /\ UNCHANGED <<engineVars, detectorVars, trackerVars, callVars,
                   cameraVars, sinkVars>>

\* detection = self._detector.detect(frame)
window_detect(outcome, ms) ==
    /\ window_pc = "detect"
    /\ detect(FALSE, outcome, ms)
    /\ IF detect_ret'.status = "raised"
       THEN window_raise /\ UNCHANGED cycle
       ELSE /\ cycle' = [cycle EXCEPT !.detection = detect_ret'.result]
            /\ window_pc' = "update"
            /\ UNCHANGED <<is_processing, window_ret>>
    /\ UNCHANGED <<window_frame_count, window_delivered>>
    /\ UNCHANGED <<engineVars, trackerVars, callVars, cameraVars, sinkVars>>

\* crop = self._center_stage.update(detection)
window_update ==
    /\ window_pc = "update"
    /\ update(cycle.detection[1].faces)
    /\ cycle' = [cycle EXCEPT !.crop = update_ret']
    /\ window_pc' = "crop"
    /\ UNCHANGED <<is_processing, window_frame_count, window_delivered,
                   window_ret>>
    /\ UNCHANGED <<detectorVars, trackerVars, callVars, cameraVars, sinkVars>>

\* the engine's target in place of the crop update() returned
applied_crop_target == target_crop

\* the crop passed to apply_crop: the local crop
applied_crop == cycle.crop[1]

\* processed_frame: apply_crop(frame, crop) if the engine is enabled, else
\* the frame
window_crop ==
    /\ window_pc = "crop"
    /\ IF enabled
       THEN LET scaled == apply_crop(cycle.shape, applied_crop)
            IN  IF scaled.raised
                THEN window_raise /\ UNCHANGED cycle
                ELSE /\ cycle' = [cycle EXCEPT !.processed =
                                      <<[crop |-> <<applied_crop>>,
                                         shape |-> cycle.shape]>>]
                     /\ window_pc' = "send"
                     /\ UNCHANGED <<is_processing, window_ret>>
       ELSE /\ cycle' = [cycle EXCEPT !.processed =
                             <<[crop |-> <<>>, shape |-> cycle.shape]>>]
            /\ window_pc' = "send"
            /\ UNCHANGED <<is_processing, window_ret>>
    /\ UNCHANGED <<window_frame_count, window_delivered>>
    /\ UNCHANGED <<engineVars, detectorVars, trackerVars, callVars,
                   cameraVars, sinkVars>>

\* the processed frame as the sink sees it
sink_frame(processed) ==
    IF processed.shape = <<720, 1280>> THEN "sink_size" ELSE "other_size"

\* if self._virtual_camera.is_running: send_frame(processed_frame), up to
\* the test at the head of send_frame
window_send ==
    /\ window_pc = "send"
    /\ IF sink_is_running
       THEN /\ send_begin(sink_frame(cycle.processed[1]))
            /\ window_pc' = IF send_pc' = "idle" THEN "preview" ELSE "sending"
       ELSE /\ window_pc' = "preview"
            /\ UNCHANGED sinkVars
    /\ UNCHANGED <<is_processing, window_frame_count, cycle, window_delivered,
                   window_ret>>
    /\ UNCHANGED <<engineVars, detectorVars, trackerVars, callVars, cameraVars>>

\* the rest of send_frame; its return value is not used
window_sending ==
    /\ window_pc = "sending"
    /\ \/ send_prepare
       \/ \E accepted \in BOOLEAN : send_locked(accepted)
    /\ window_pc' = IF send_pc' = "idle" THEN "preview" ELSE "sending"
    /\ UNCHANGED <<is_processing, window_frame_count, cycle, window_delivered,
                   window_ret>>
    /\ UNCHANGED <<engineVars, detectorVars, trackerVars, callVars, cameraVars>>

\* the preview and the status labels, then the finally clause
window_preview ==
    /\ window_pc = "preview"
    /\ window_finally("returned")
    /\ UNCHANGED <<window_frame_count, cycle, window_delivered>>
    /\ UNCHANGED <<engineVars, detectorVars, trackerVars, callVars,
                   cameraVars, sinkVars>>

\* the slots of the control panel, run by the event loop between two calls
\* of the handler
on_center_stage_toggled(value) ==
    /\ window_pc = "idle"
    /\ set_enabled(value)
    /\ UNCHANGED exceptEngine

on_virtual_camera_toggled(value, opens) ==
    /\ window_pc = "idle"
    /\ IF value THEN sink_start(opens) ELSE sink_stop
    /\ UNCHANGED exceptSink

\* the objects after construction
ObjectsInit ==
    /\ EngineInit /\ DetectorInit /\ TrackerInit /\ CameraInit /\ SinkInit
    /\ WindowInit
    /\ VIRTUAL_CAM_AVAILABLE = TRUE

Init == ObjectsInit /\ call_args = <<>> /\ call_ret = <<>>

Next ==
    \/ \E faces \in FaceLists : update(faces) /\ UNCHANGED exceptEngine
    \/ reset /\ UNCHANGED exceptEngine
    \/ \E value \in BOOLEAN : set_enabled(value) /\ UNCHANGED exceptEngine

Spec == Init /\ [][Next]_vars

\* the engine fed with the out-of-frame face lists
OutOfFrameNext ==
    \/ \E faces \in OutOfFrameFaceLists : update(faces) /\ UNCHANGED exceptEngine
    \/ reset /\ UNCHANGED exceptEngine
    \/ \E value \in BOOLEAN : set_enabled(value) /\ UNCHANGED exceptEngine

OutOfFrameSpec == Init /\ [][OutOfFrameNext]_vars

DetectorNext ==
    \E force \in BOOLEAN, outcome \in CascadeOutcomes, ms \in ProcessingTimes :
        detect(force, outcome, ms) /\ UNCHANGED exceptDetector

DetectorSpec == Init /\ [][DetectorNext]_vars

TrackerNext ==
    \/ \E detections \in DetectionLists :
           init_tracks(detections) /\ UNCHANGED exceptTracker
    \/ \E results \in [1..Len(tracked_faces) -> PredictorResults] :
           update_tracks(results) /\ UNCHANGED exceptTracker
    \/ \E detections \in DetectionLists :
           refresh_tracks(detections) /\ UNCHANGED exceptTracker
    \/ clear /\ UNCHANGED exceptTracker

TrackerSpec == Init /\ [][TrackerNext]_vars

\* the engine in front of a held face list, after any number of updates
\* with the face of test_crop_moves_towards_face
HeldFacesInit == ObjectsInit /\ call_args \in HeldFaceLists /\ call_ret = <<>>
HeldFacesNext ==
    \E faces \in {call_args, <<FaceRight>>} :
        update(faces) /\ UNCHANGED exceptEngine
HeldFacesSpec == HeldFacesInit /\ [][HeldFacesNext]_vars

ApplyCropInit == ObjectsInit /\ call_args \in ApplyCropInputs /\ call_ret = <<>>
ApplyCropNext == call_apply_crop /\ UNCHANGED exceptCall
ApplyCropSpec == ApplyCropInit /\ [][ApplyCropNext]_vars

PixelRectInit == ObjectsInit /\ call_args \in PixelRectInputs /\ call_ret = <<>>
PixelRectNext == call_pixel_rect /\ UNCHANGED exceptCall
PixelRectSpec == PixelRectInit /\ [][PixelRectNext]_vars

MatchInit == ObjectsInit /\ call_args \in MatchInputs /\ call_ret = <<>>
MatchNext == call_match_detections /\ UNCHANGED exceptCall
MatchSpec == MatchInit /\ [][MatchNext]_vars

TargetFloatInit ==
    ObjectsInit /\ call_args \in FloatFaceLists /\ call_ret = <<>>
TargetFloatNext == call_target_crop_float /\ UNCHANGED exceptCall
TargetFloatSpec == TargetFloatInit /\ [][TargetFloatNext]_vars

TargetInit == ObjectsInit /\ call_args \in TargetInputs /\ call_ret = <<>>
TargetNext == call_target_crop /\ UNCHANGED exceptCall
TargetSpec == TargetInit /\ [][TargetNext]_vars

ClampInit == ObjectsInit /\ call_args \in ClampInputs /\ call_ret = <<>>
ClampNext == call_clamp /\ UNCHANGED exceptCall
ClampSpec == ClampInit /\ [][ClampNext]_vars

LerpInit == ObjectsInit /\ call_args \in LerpInputs /\ call_ret = <<>>
LerpNext == call_lerp /\ UNCHANGED exceptCall
LerpSpec == LerpInit /\ [][LerpNext]_vars

IouInit == ObjectsInit /\ call_args \in IouInputs /\ call_ret = <<>>
IouNext == call_iou /\ UNCHANGED exceptCall
IouSpec == IouInit /\ [][IouNext]_vars

CameraNext ==
    \/ start_begin /\ UNCHANGED exceptCamera
    \/ \E opened \in BOOLEAN : start_open(opened) /\ UNCHANGED exceptCamera
    \/ start_run /\ UNCHANGED exceptCamera
    \/ start_thread /\ UNCHANGED exceptCamera
    \/ start_connected /\ UNCHANGED exceptCamera
    \/ stop_begin /\ UNCHANGED exceptCamera
    \/ stop_join /\ UNCHANGED exceptCamera
    \/ stop_release /\ UNCHANGED exceptCamera
    \/ stop_state /\ UNCHANGED exceptCamera
    \/ \E t \in 1..Len(threads) : loop_test(t) /\ UNCHANGED exceptCamera
    \/ \E t \in 1..Len(threads), ok \in BOOLEAN :
           read_returns(t, ok) /\ UNCHANGED exceptCamera
    \/ \E t \in 1..Len(threads) : publish(t) /\ UNCHANGED exceptCamera
    \/ \E t \in 1..Len(threads) : read_failed(t) /\ UNCHANGED exceptCamera

CameraSpec == Init /\ [][CameraNext]_vars

\* the sink: start() and stop() called while send_frame() calls are made
SinkNext ==
    \/ \E opens \in [1..Len(BACKENDS) -> BOOLEAN] :
           sink_start(opens) /\ UNCHANGED exceptSink
    \/ sink_stop /\ UNCHANGED exceptSink
    \/ \E frame \in SinkFrames : send_begin(frame) /\ UNCHANGED exceptSink
    \/ send_prepare /\ UNCHANGED exceptSink
    \/ \E accepted \in BOOLEAN : send_locked(accepted) /\ UNCHANGED exceptSink

\* pyvirtualcam may be installed or not
SinkSpecInit ==
    /\ EngineInit /\ DetectorInit /\ TrackerInit /\ CameraInit /\ SinkInit
    /\ WindowInit
    /\ VIRTUAL_CAM_AVAILABLE \in BOOLEAN
    /\ call_args = <<>> /\ call_ret = <<>>

SinkSpec == SinkSpecInit /\ [][SinkNext]_vars

\* the main window: frames delivered to the handler, the stages of a cycle,
\* and the toggles of the control panel
WindowNext ==
    \/ \E shape \in WindowFrameShapes : on_frame_ready(shape)
    \/ \E outcome \in WindowCascadeOutcomes, ms \in {1} : window_detect(outcome, ms)
    \/ window_update
    \/ window_crop
    \/ window_send
    \/ window_sending
    \/ window_preview
    \/ \E value \in BOOLEAN : on_center_stage_toggled(value)
    \/ \E value \in BOOLEAN, opens \in [1..Len(BACKENDS) -> BOOLEAN] :
           on_virtual_camera_toggled(value, opens)

WindowSpec == Init /\ [][WindowNext]_vars

---------------------------------------------------------------------------
(* Properties of the framing engine *)

Pristine ==
    /\ current_crop = full_frame
    /\ target_crop = full_frame
    /\ frames_without_face = 0
    /\ is_tracking = FALSE

\* c2 lies between c and t in every component: a step from c that does not
\* move away from t and does not overshoot it
Between(a, b, v) == (a <= v /\ v <= b) \/ (b <= v /\ v <= a)
Toward(c, c2, t) ==
    /\ Between(c.x, t.x, c2.x)
    /\ Between(c.y, t.y, c2.y)
    /\ Between(c.width, t.width, c2.width)
    /\ Between(c.height, t.height, c2.height)

\* c2 is strictly nearer to t than c in the dead-zone distance
Closer(c, c2, t) == total_delta2(c2, t) < total_delta2(c, t)

\* C1: while the engine is disabled its state is the reset state (full-frame
\* current and target, not tracking, counter 0), whatever state it was
\* disabled in, and every update() issued meanwhile returned the full-frame
\* region.
C1_DisabledIsFullFrame ==
    ~enabled =>
        /\ Pristine
        /\ update_ret # <<>> => update_ret = <<full_frame>>

\* an update() with faces answered while disabled
C1_Witness ==
    /\ ~enabled
    /\ update_ret = <<full_frame>>

CropValid(c) ==
    /\ c.x >= 0
    /\ c.y >= 0
    /\ c.width > 0
    /\ c.height > 0
    /\ c.x + c.width <= ONE
    /\ c.y + c.height <= ONE

\* C2: the crop stored as current_crop and every crop returned by update()
\* has a non-negative origin, a positive size and lies inside the frame,
\* whatever faces (inside or outside the frame) the updates were given.
C2_CropInBounds ==
    /\ CropValid(current_crop)
    /\ update_ret # <<>> => CropValid(update_ret[1])

\* the engine has settled on the target of a face wholly outside the frame
C2_Witness ==
    /\ is_tracking
    /\ target_crop = calculate_target_crop(<<FaceOutside>>)
    /\ current_crop # full_frame
    /\ in_dead_zone(current_crop, target_crop)
    /\ update_ret = <<current_crop>>

\* a no-face update() of the enabled engine is the only step that increments
\* frames_without_face
NoFaceUpdate == enabled /\ frames_without_face' = frames_without_face + 1

\* C3: once more than frames_until_reset consecutive no-face updates have
\* passed, the engine is not tracking and its target is the full frame; each
\* further no-face update moves current_crop toward the full frame (never
\* away, strictly nearer) while it is outside the dead zone, and leaves it
\* where it is once inside.
C3_ReturnsToFullFrame ==
    [][ /\ frames_without_face' > frames_until_reset =>
              ~is_tracking' /\ target_crop' = full_frame
        /\ (NoFaceUpdate /\ frames_without_face' > frames_until_reset) =>
              IF in_dead_zone(current_crop, full_frame)
              THEN current_crop' = current_crop
              ELSE /\ Toward(current_crop, current_crop', full_frame)
                   /\ Closer(current_crop, current_crop', full_frame)
      ]_vars

\* after tracking, the crop has come back into the dead zone around the full
\* frame and stays there
C3_Witness ==
    /\ enabled
    /\ frames_without_face > frames_until_reset + 1
    /\ ~is_tracking
    /\ current_crop # full_frame
    /\ in_dead_zone(current_crop, full_frame)
    /\ update_ret = <<current_crop>>

\* C4: with the same face list given again to a tracking engine, the engine
\* keeps tracking, the target does not change, and current_crop moves
\* strictly nearer to the target without overshooting while outside the dead
\* zone (for the face right of centre, its horizontal centre strictly
\* increases while it is left of the target's), and does not change once
\* inside the dead zone.
C4_HeldFaceConverges ==
    [][ \A f \in FaceLists \ {<<>>} :
          ( /\ enabled
            /\ is_tracking
            /\ frames_without_face = 0
            /\ target_crop = calculate_target_crop(f)
            /\ update(f) ) =>
          /\ is_tracking'
          /\ target_crop' = target_crop
          /\ IF in_dead_zone(current_crop, target_crop)
             THEN current_crop' = current_crop
             ELSE /\ Toward(current_crop, current_crop', target_crop)
                  /\ Closer(current_crop, current_crop', target_crop)
                  /\ ( /\ f = <<FaceRight>>
                       /\ center2x(current_crop) < center2x(target_crop) ) =>
                         center2x(current_crop') > center2x(current_crop)
      ]_vars

\* the held face right of centre has pulled the crop into the dead zone of
\* its target, right of the frame centre
C4_Witness ==
    /\ is_tracking
    /\ target_crop = calculate_target_crop(<<FaceRight>>)
    /\ current_crop # target_crop
    /\ in_dead_zone(current_crop, target_crop)
    /\ center2x(current_crop) > ONE
    /\ update_ret = <<current_crop>>

\* an update() of the enabled engine (only update() returns a crop)
EnabledUpdate == enabled /\ update_ret' # <<>>

\* C5: an update() in which the dead-zone distance between the (new) target
\* and current_crop is below dead_zone leaves current_crop exactly as it
\* was and returns it; the enabled flag is untouched.
C5_DeadZoneHolds ==
    [][ (EnabledUpdate /\ in_dead_zone(current_crop, target_crop')) =>
            /\ current_crop' = current_crop
            /\ update_ret' = <<current_crop>>
            /\ enabled' = enabled
      ]_vars

\* the crop rests inside the dead zone of a target it has not reached
C5_Witness ==
    /\ enabled
    /\ is_tracking
    /\ current_crop # target_crop
    /\ current_crop # full_frame
    /\ total_delta2(current_crop, target_crop) > 0
    /\ in_dead_zone(current_crop, target_crop)
    /\ update_ret = <<current_crop>>

StepAtMost(a, a2, t) == 100 * Abs(a2 - a) <= smoothing * Abs(t - a) + 50

\* C7: an update() with at least one face, from any state of the enabled
\* engine, leaves is_tracking true and frames_without_face 0, and moves
\* current_crop from where it was by at most one smoothing step toward the
\* new target (no snap).
C7_FaceResumesTracking ==
    [][ \A f \in FaceLists \ {<<>>} :
          (enabled /\ update(f)) =>
          /\ is_tracking'
          /\ frames_without_face' = 0
          /\ Toward(current_crop, current_crop', target_crop')
          /\ StepAtMost(current_crop.x, current_crop'.x, target_crop'.x)
          /\ StepAtMost(current_crop.y, current_crop'.y, target_crop'.y)
          /\ StepAtMost(current_crop.width, current_crop'.width, target_crop'.width)
          /\ StepAtMost(current_crop.height, current_crop'.height, target_crop'.height)
      ]_vars

\* tracking the face right of centre resumed from a crop that had been
\* following the face below the frame
C7_Witness ==
    /\ enabled
    /\ is_tracking
    /\ frames_without_face = 0
    /\ target_crop = calculate_target_crop(<<FaceRight>>)
    /\ current_crop.y > target_crop.y + ONE \div 10
    /\ update_ret = <<current_crop>>

\* C8: the engine starts in the reset state, reset() leads to it from any
\* state, and a no-face update of an idle engine whose current and target
\* crops are the full frame leaves it idle with the full-frame crop, which
\* it returns.
C8_ResetIsFullFrameIdle ==
    /\ Pristine
    /\ [][ /\ reset => Pristine'
           /\ ( /\ NoFaceUpdate
                /\ ~is_tracking
                /\ current_crop = full_frame
                /\ target_crop = full_frame ) =>
                  /\ ~is_tracking'
                  /\ current_crop' = full_frame
                  /\ target_crop' = full_frame
                  /\ update_ret' = <<full_frame>>
         ]_vars

\* an idle engine after more no-face updates than the reset threshold
C8_Witness ==
    /\ enabled
    /\ frames_without_face > frames_until_reset
    /\ ~is_tracking
    /\ current_crop = full_frame
    /\ update_ret = <<full_frame>>

---------------------------------------------------------------------------
(* Properties of the detection cache *)

\* C9: every detect() call increments the frame counter; the call that
\* brings it to k invokes the detector exactly when force is set, or nothing
\* is cached, or k is a multiple of the detect interval; a call that does
\* not invoke it returns the cached result and leaves the cache as it was.
C9_FrameSkipping ==
    [][ \A force \in BOOLEAN, outcome \in CascadeOutcomes, ms \in ProcessingTimes :
          detect(force, outcome, ms) =>
          /\ frame_count' = frame_count + 1
          /\ cascade_last' # "none" <=>
                \/ force
                \/ last_result = <<>>
                \/ frame_count' % detect_interval = 0
          /\ cascade_last' = "none" =>
                /\ last_result # <<>>
                /\ last_result' = last_result
                /\ detect_ret' = [status |-> "returned", result |-> last_result]
          /\ UNCHANGED engineVars
      ]_vars

\* a cached six-rectangle result (cut to max_faces) returned without
\* invoking the detector, two calls after it was made
C9_Witness ==
    /\ cascade_last = "none"
    /\ frame_count % detect_interval = 2
    /\ frame_count > detect_interval
    /\ last_result # <<>>
    /\ detect_ret = [status |-> "returned", result |-> last_result]
    /\ Len(last_result[1].faces) = max_faces

\* C10: a detect() call in which the detector invocation raised returns an
\* empty DetectionResult.
C10_FailureYieldsEmptyResult ==
    cascade_last = "raised" =>
        /\ detect_ret.status = "returned"
        /\ detect_ret.result # <<>>
        /\ detect_ret.result[1].faces = <<>>

---------------------------------------------------------------------------
(* Properties of the face tracker *)

TrackIds(table) == { table[k].tracking_id : k \in 1..Len(table) }

\* C11: the id counter never decreases, every id in the table was issued
\* (is below the counter), and every id that enters the table is at or
\* above the counter of the state before and below the counter after: a new
\* track's id is greater than every id issued before, so the id of a
\* removed track never comes back
C11_IdsNeverReused ==
    [][/\ next_id' >= next_id
       /\ \A id \in TrackIds(tracked_faces) : id < next_id
       /\ Cardinality(TrackIds(tracked_faces')) = Len(tracked_faces')
       /\ \A id \in TrackIds(tracked_faces') \ TrackIds(tracked_faces) :
              id >= next_id /\ id < next_id']_vars

\* tracks were created after the ids 0 and 1 had been issued and removed
C11_Witness ==
    /\ tracker_ret.op \in {"init_tracks", "refresh_tracks"}
    /\ tracked_faces # <<>>
    /\ \A id \in TrackIds(tracked_faces) : id >= 2

\* C12: no track returned by init_tracks, update or refresh_tracks is lost,
\* no track of the table is older than max_frames_without_detection, and an
\* update call drops every track whose predictor failed in it or whose age
\* exceeded the ceiling in it
C12_LostNeverReported ==
    [][/\ \A k \in 1..Len(tracker_ret'.faces) : ~tracker_ret'.faces[k].is_lost
       /\ \A k \in 1..Len(tracked_faces') :
              tracked_faces'[k].frames_since_detection <= max_frames_lost
       /\ tracker_ret'.op = "update" =>
              \A k \in 1..Len(tracked_faces) :
                  (\/ tracked_faces[k].tracking_id \in tracker_ret'.failed
                   \/ tracked_faces[k].frames_since_detection + 1 > max_frames_lost)
                  => tracked_faces[k].tracking_id \notin TrackIds(tracked_faces')]_vars

\* an update in which a predictor failed and another track was reported
C12_Witness ==
    /\ tracker_ret.op = "update"
    /\ tracker_ret.failed # {}
    /\ tracker_ret.faces # <<>>

\* C13: an update call in which the predictor failed for the tracks F
\* returns, removes exactly F and the tracks whose age exceeded the ceiling,
\* and leaves every other track in the table one frame older
C13_FailureRemovesOnlyThatTrack ==
    [][tracker_ret'.op = "update" =>
         LET aged == { tracked_faces[k].tracking_id : k \in { n \in 1..Len(tracked_faces) :
                         tracked_faces[n].frames_since_detection + 1 > max_frames_lost } }
         IN  /\ tracker_ret'.failed \subseteq TrackIds(tracked_faces)
             /\ TrackIds(tracked_faces') =
                    TrackIds(tracked_faces) \ (tracker_ret'.failed \cup aged)
             /\ \A k \in 1..Len(tracked_faces), j \in 1..Len(tracked_faces') :
                    tracked_faces[k].tracking_id = tracked_faces'[j].tracking_id =>
                        tracked_faces'[j].frames_since_detection =
                            tracked_faces[k].frames_since_detection + 1]_vars

\* an update in which exactly one predictor failed and a survivor reached
\* the ceiling
C13_Witness ==
    /\ tracker_ret.op = "update"
    /\ Cardinality(tracker_ret.failed) = 1
    /\ \E k \in 1..Len(tracked_faces) :
           tracked_faces[k].frames_since_detection = max_frames_lost

---------------------------------------------------------------------------
(* Properties of CropRegion *)

Components == {"x", "y", "width", "height"}

\* C17: for every region r, with negative origins and with sizes above
\* 1.0 too, r.clamp() has 0 <= x, 0 <= y, right <= 1.0 and bottom <= 1.0,
\* both as the floats x + width and y + height and as the exact sums, and
\* r is what it was before the call
C17_ClampInBounds ==
    [][call_ret' # <<>> =>
         LET c == call_ret'[1]
         IN  /\ c.x >= 0
             /\ c.y >= 0
             /\ right_float(c) <= FloatOne
             /\ bottom_float(c) <= FloatOne
             /\ c.x + c.width <= FloatOne
             /\ c.y + c.height <= FloatOne
             /\ call_args' = call_args]_vars

\* a region with a negative origin and an oversized width was clamped
C17_Witness ==
    /\ call_ret # <<>>
    /\ call_args \in ClampInputs
    /\ call_args.x < 0
    /\ call_args.width > FloatOne
    /\ call_ret[1].x = 0
    /\ call_ret[1].width = FloatOne

lerp_error(a, b, factor, v) == Abs(100 * v - (100 * a + (b - a) * factor))

---------------------------------------------------------------------------
(* Properties of _calculate_iou *)

\* the pixels of a box
pixels(bbox) ==
    { <<i, j>> : i \in bbox[1]..(bbox[1] + bbox[3] - 1),
                 j \in bbox[2]..(bbox[2] + bbox[4] - 1) }

positive_size(bbox) == bbox[3] > 0 /\ bbox[4] > 0
non_negative_size(bbox) == bbox[3] >= 0 /\ bbox[4] >= 0

\* C19: _calculate_iou(a, b) equals _calculate_iou(b, a) for all boxes; it
\* is 1 for a = b of positive size; for boxes of non-negative size it is 0
\* when they share no pixel (as when they touch on an edge), and lies in
\* [0, 1]: for boxes sharing a pixel it is the number of shared pixels over
\* the number of pixels of the union
C19_IouProperties ==
    (call_ret # <<>> /\ call_args \in IouInputs) =>
        LET a == call_args.a
            b == call_args.b
            iou == call_ret[1]
        IN  /\ iou_eq(iou, calculate_iou(b, a))
            /\ iou[2] > 0
            /\ (a = b /\ positive_size(a)) => iou[1] = iou[2]
            /\ (non_negative_size(a) /\ non_negative_size(b)) =>
                   /\ 0 <= iou[1] /\ iou[1] <= iou[2]
                   /\ pixels(a) \cap pixels(b) = {} => iou[1] = 0
                   /\ pixels(a) \cap pixels(b) # {} =>
                          /\ iou[1] = Cardinality(pixels(a) \cap pixels(b))
                          /\ iou[2] = Cardinality(pixels(a) \cup pixels(b))

\* two boxes of positive size that touch on a vertical edge gave 0
C19_Witness ==
    /\ call_ret = << <<0, 1>> >>
    /\ call_args \in IouInputs
    /\ positive_size(call_args.a) /\ positive_size(call_args.b)
    /\ call_args.a[1] + call_args.a[3] = call_args.b[1]
    /\ call_args.a[2] = call_args.b[2]

---------------------------------------------------------------------------
(* Properties of the framing of held faces *)

\* the padded union of the faces fits inside the largest crop
fits_largest_crop(faces) ==
    LET p == padded_union(faces)
    IN  /\ p.max_x - p.min_x <= largest_crop_width
        /\ p.max_y - p.min_y <= largest_crop_height

\* the crop contains the face rectangle, up to slack at each edge
contains(c, f, slack) ==
    /\ c.x <= f.x + slack
    /\ c.y <= f.y + slack
    /\ f.x + f.width <= c.x + c.width + slack
    /\ f.y + f.height <= c.y + c.height + slack

\* the target is that of the held faces and the crop has stopped moving
\* toward it: every further update with these faces returns the same crop
settled ==
    /\ update_ret = <<current_crop>>
    /\ is_tracking
    /\ target_crop = calculate_target_crop(call_args)
    /\ in_dead_zone(current_crop, target_crop)

---------------------------------------------------------------------------
(* Properties of apply_crop *)

\* the crop's pixel width or height is zero
degenerate(frame, crop) ==
    LET px == to_pixels(crop, frame[2], frame[1])
    IN  px.cw = 0 \/ px.ch = 0

\* C14: apply_crop of a crop whose pixel width or height is zero does not
\* raise, and resizes the full input frame
C14_DegenerateCropFallsBack ==
    (/\ call_ret # <<>>
     /\ call_args \in ApplyCropInputs
     /\ degenerate(call_args.frame, call_args.crop))
    => /\ ~call_ret[1].raised
       /\ call_ret[1].rows = call_args.frame[1]
       /\ call_ret[1].cols = call_args.frame[2]

\* C32: for every frame shape and every crop of non-negative width and
\* height the pixel rectangle apply_crop slices out lies inside the frame,
\* 0 <= x, 0 <= y, x + cw <= w, y + ch <= h, and has a non-negative size, so
\* the slice has exactly that size
C32_PixelRectInFrame ==
    (/\ call_ret # <<>>
     /\ call_args \in PixelRectInputs
     /\ call_args.crop.width >= 0
     /\ call_args.crop.height >= 0) =>
        LET r == call_ret[1].rect
        IN  /\ r.x >= 0
            /\ r.y >= 0
            /\ r.cw >= 0
            /\ r.ch >= 0
            /\ r.x + r.cw <= call_args.frame[2]
            /\ r.y + r.ch <= call_args.frame[1]
            /\ call_ret[1].rows = r.ch
            /\ call_ret[1].cols = r.cw

\* a crop starting left of the frame and wider than it, reaching below the
\* bottom edge: the rectangle is the full width and ends at the last row
C32_Witness ==
    /\ call_ret # <<>>
    /\ call_args \in PixelRectInputs
    /\ call_args.crop.x < 0
    /\ call_args.crop.width > ONE
    /\ call_args.crop.y > 0
    /\ call_args.crop.y + call_args.crop.height > ONE
    /\ call_ret[1].rect.x = 0
    /\ call_ret[1].rect.cw = call_args.frame[2]
    /\ call_ret[1].rect.y > 0
    /\ call_ret[1].rect.y + call_ret[1].rect.ch = call_args.frame[1]

---------------------------------------------------------------------------
(* Properties of the emitted aspect ratio *)

\* width / height is aspect_ratio, up to the rounding of one division
has_aspect_ratio(c) ==
    Abs(c.width * aspect_h - c.height * aspect_w) <= aspect_w

\* the crop lies against an edge of the frame, where clamp may have cut it
touches_edge(c) ==
    \/ c.x = 0
    \/ c.y = 0
    \/ c.x + c.width = ONE
    \/ c.y + c.height = ONE

\* C15: every crop returned by update() of an enabled engine has width /
\* height equal to the configured aspect ratio, unless it lies against an
\* edge of the frame
C15_EmittedCropHasAspectRatio ==
    (enabled /\ update_ret # <<>>) =>
        has_aspect_ratio(update_ret[1]) \/ touches_edge(update_ret[1])

---------------------------------------------------------------------------
(* Properties of the camera capture *)

\* the step in which thread t takes the else branch of a failed read
handles_failed_read(t) == threads[t].pc = "failed" /\ threads'[t].pc # "failed"

\* a thread that left the loop stays out of it: it reads no more
stays_done(t) == threads[t].pc = "done" => threads'[t].pc = "done"

error_signal == [signal |-> "state_changed", value |-> "ERROR"]

stop_returned == main_pc = "idle" /\ camera_ret.op = "stop"

\* C21: after stop() has returned, is_running is false, the state is
\* DISCONNECTED, the camera handle is released and cleared and the thread
\* reference is cleared
C21_StopIsComplete ==
    stop_returned =>
        /\ running = FALSE
        /\ state = "DISCONNECTED"
        /\ capture = None
        /\ thread = None
        /\ \A c \in 1..Len(captures) : captures[c] # "opened"

\* C22: the latest-frame slot is None until a frame is published, a
\* publication puts the published frame in the slot, nothing else writes
\* the slot, and the slot never goes back to a frame read from the camera
\* before the one it holds (frames are numbered in the order of the reads)
C22_LatestFrameOnly ==
    [][ /\ (current_frame = None /\ current_frame' # None) =>
               \E t \in 1..Len(threads) : publish(t)
        /\ (\E t \in 1..Len(threads) : publish(t)) =>
               /\ current_frame' = emitted'[1].value
               /\ current_frame' # None
        /\ current_frame' >= current_frame ]_vars

\* the capture threads that are in read() or hold a frame to publish
reading_threads ==
    { t \in 1..Len(threads) : threads[t].pc \in {"reading", "got_frame"} }

\* C35: at most one capture thread reads from the camera and publishes
\* frames, and no thread is in read() on a capture that stop() has released
C35_OneReaderNoReleasedHandle ==
    /\ Cardinality(reading_threads) <= 1
    /\ \A t \in 1..Len(threads) :
           threads[t].pc = "reading" => captures[threads[t].handle] = "opened"

\* C36: between the calls of start() and stop(), is_running is true only
\* while the capture thread is alive; in particular it is false once a
\* failed read has ended the loop, and a start() that finds the state ERROR
\* after a failed read does not return without opening the camera
C36_RunningOnlyWhileThreadAlive ==
    /\ []((running /\ main_pc = "idle") =>
              (thread # None /\ threads[thread].pc # "done"))
    /\ [][(/\ main_pc = "idle" /\ main_pc' = "idle"
           /\ camera_ret'.op = "start" /\ camera_ret'.value
           /\ thread # None) =>
              threads[thread].pc # "done"]_vars

---------------------------------------------------------------------------
(* Properties of the virtual camera output *)

\* a step of a send_frame() call
send_frame_step ==
    \/ \E frame \in SinkFrames : send_begin(frame)
    \/ send_prepare
    \/ \E accepted \in BOOLEAN : send_locked(accepted)

\* the step ends a send_frame() call
send_frame_returns == send_frame_step /\ send_pc' = "idle"

\* C23: send_frame never raises; it returns False when the sink is not
\* running or has no device, and when the resize or the device's send
\* throws; no step of it changes _running, _cam or the backend, or closes a
\* device, and the caller can make the next call
C23_SendFrameNeverRaises ==
    [][ send_frame_step =>
          /\ UNCHANGED <<sink_running, cam, backend_used>>
          /\ Len(devices') = Len(devices)
          /\ \A d \in 1..Len(devices) : devices'[d].state = devices[d].state
          /\ send_frame_returns =>
                /\ sink_ret'.op = "send_frame"
                /\ ~sink_ret'.raised
                /\ (send_pc = "idle" /\ ~sink_is_running) =>
                       sink_ret'.value = FALSE
                /\ (send_pc = "prepare") => sink_ret'.value = FALSE
                /\ (send_pc = "send" /\ cam # None
                        /\ devices'[cam].failed > devices[cam].failed) =>
                       sink_ret'.value = FALSE ]_vars

\* a send that threw has returned False on a running sink, and a later frame
\* has been sent through the same device
C23_Witness ==
    /\ sink_is_running
    /\ devices[cam].failed > 0
    /\ sink_ret = [op |-> "send_frame", value |-> TRUE, raised |-> FALSE,
                   sent |-> TRUE, tried |-> <<>>]
    /\ send_arg = "other_size"

\* a call of start() or stop() returned in this step
start_returned == sink_ret'.op = "start" /\ sink_ret' # sink_ret
sink_stop_returned == sink_ret'.op = "stop" /\ sink_ret' # sink_ret

\* C34: start() tries the backends in the order of BACKENDS and stops at
\* the first one that opens: it then holds that device, records its backend,
\* is running and returns True; if none opens it returns False, not running
\* and with no backend; on a running sink it returns True and opens nothing;
\* after stop() the sink is not running, has no backend and its device is
\* closed
C34_StartFallsBackInOrder ==
    /\ [](/\ ~sink_running => (cam = None /\ backend_used = "None")
          /\ \A d \in 1..Len(devices) : d # cam => devices[d].state = "closed")
    /\ [][/\ start_returned =>
                 LET tried == sink_ret'.tried
                     last == Len(tried)
                 IN  /\ last <= Len(BACKENDS)
                     /\ \A b \in 1..last : tried[b].backend = BACKENDS[b]
                     /\ \A b \in 1..(last - 1) : ~tried[b].opened
                     /\ IF sink_running \/ ~VIRTUAL_CAM_AVAILABLE
                        THEN /\ tried = <<>>
                             /\ sink_ret'.value = sink_running
                             /\ UNCHANGED <<sink_running, cam, backend_used,
                                            devices>>
                        ELSE IF tried[last].opened
                        THEN /\ sink_ret'.value
                             /\ sink_running' /\ cam' # None
                             /\ backend_used' = tried[last].backend
                             /\ devices' = Append(devices,
                                    [backend |-> tried[last].backend,
                                     state |-> "open", sent |-> 0,
                                     failed |-> 0])
                             /\ cam' = Len(devices')
                        ELSE /\ last = Len(BACKENDS)
                             /\ ~sink_ret'.value
                             /\ ~sink_running' /\ cam' = None
                             /\ backend_used' = "None"
                             /\ UNCHANGED devices
          /\ sink_stop_returned =>
                 /\ ~sink_running' /\ cam' = None
                 /\ backend_used' = "None"
                 /\ \A d \in 1..Len(devices') : devices'[d].state = "closed"
                 /\ Len(devices') = Len(devices)
         ]_vars

\* a sink started a second time after a stop: the first backend failed to
\* open, the second opened and is the one recorded
C34_Witness ==
    /\ sink_ret = [op |-> "start", value |-> TRUE, raised |-> FALSE,
                   sent |-> FALSE,
                   tried |-> <<[backend |-> "unitycapture", opened |-> FALSE],
                               [backend |-> "obs", opened |-> TRUE]>>]
    /\ sink_is_running
    /\ backend_used = "obs"
    /\ Len(devices) = 2
    /\ cam = 2
    /\ devices[1].state = "closed"
    /\ devices[2] = [backend |-> "obs", state |-> "open", sent |-> 0,
                     failed |-> 0]

\* C37: send_frame returns True only for a frame it handed to the device,
\* whatever stop() does meanwhile, and send is called only on the device the
\* sink holds, while it is open
C37_TrueOnlyIfSent ==
    /\ []((sink_ret.op = "send_frame" /\ sink_ret.value) => sink_ret.sent)
    /\ [][\A d \in 1..Len(devices) :
              (devices'[d].sent # devices[d].sent
               \/ devices'[d].failed # devices[d].failed) =>
                  /\ d = cam
                  /\ devices[d].state = "open"
                  /\ send_pc = "send"
         ]_vars

---------------------------------------------------------------------------
(* Properties of the target crop *)

\* the face of largest area, the first of them in the list
first_largest(faces) ==
    faces[SetMin({ i \in 1..Len(faces) :
                     \A j \in 1..Len(faces) : area(faces[j]) <= area(faces[i]) })]

\* C24: in SINGLE mode the target crop is the one of the largest face alone
\* (the first one on ties), so every face list with the same largest face
\* has the same target crop
C24_SingleModePrimaryOnly ==
    (call_ret # <<>> /\ call_args.mode = "single") =>
        /\ call_ret[1] = target_crop_of(<<first_largest(call_args.faces)>>)
        /\ \A g \in TargetFaceLists :
               first_largest(g) = first_largest(call_args.faces) =>
                   target_crop_of(framed_faces_in("single", g)) = call_ret[1]

\* three faces in SINGLE mode, the largest ones the second and the third
\* with equal areas, and a target that is neither the one of the third face
\* nor the one framing all three
C24_Witness ==
    /\ call_ret # <<>>
    /\ call_args.mode = "single"
    /\ call_args.faces = <<FaceLeft, FaceFirst, FaceSecond>>
    /\ call_ret[1] = target_crop_of(<<FaceFirst>>)
    /\ call_ret[1] # target_crop_of(<<FaceSecond>>)
    /\ call_ret[1] # target_crop_of(call_args.faces)

\* C31: in CLOSEST mode the target crop is the one of the closest face (the
\* one of largest area) alone, as in SINGLE mode, so every face list with the
\* same largest face has the same target crop
C31_ClosestModePrimaryOnly ==
    (call_ret # <<>> /\ call_args.mode = "closest") =>
        /\ call_ret[1] = target_crop_of(<<first_largest(call_args.faces)>>)
        /\ call_ret[1] = target_crop_of(framed_faces_in("single", call_args.faces))
        /\ \A g \in TargetFaceLists :
               first_largest(g) = first_largest(call_args.faces) =>
                   target_crop_of(framed_faces_in("closest", g)) = call_ret[1]

---------------------------------------------------------------------------
(* Properties of the matching of detections to tracks *)

\* the (track, detection) pairs that can still be matched: both unmatched,
\* IoU at least the threshold; a pair is <<k, i>>, the k-th track of the
\* table and the i-th detection
candidates(table, detections, tracks, dets) ==
    { p \in tracks \X dets :
          iou_ge(calculate_iou(table[p[1]].bbox, detections[p[2]]), iou_threshold) }

\* the candidates of highest IoU, and among them those of the lowest track
\* identity
best_pairs(table, detections, tracks, dets) ==
    LET cand == candidates(table, detections, tracks, dets)
        iou(p) == calculate_iou(table[p[1]].bbox, detections[p[2]])
        highest == { p \in cand : \A q \in cand : ~iou_gt(iou(q), iou(p)) }
    IN  { p \in highest :
              \A q \in highest : table[p[1]].tracking_id <= table[q[1]].tracking_id }

\* the reference greedy procedure: every assignment it can produce (it
\* leaves open which detection is taken when two have the same IoU with the
\* same track)
RECURSIVE greedy_assignments(_, _, _, _)
greedy_assignments(table, detections, tracks, dets) ==
    LET best == best_pairs(table, detections, tracks, dets)
    IN  IF best = {}
        THEN { {} }
        ELSE UNION { { {p} \cup a :
                         a \in greedy_assignments(table, detections,
                                                  tracks \ {p[1]}, dets \ {p[2]}) } :
                     p \in best }

\* the assignment refresh_tracks made, as a set of pairs
assigned_pairs(table, assigned) ==
    { p \in (1..Len(table)) \X (1..Len(assigned)) :
          assigned[p[2]] = table[p[1]].tracking_id }

\* C25: the assignment made by refresh_tracks is one the reference greedy
\* procedure produces (highest IoU pair first, ties to the lower track
\* identity, until the best remaining IoU is below the threshold)
C25_MatchesGreedyReference ==
    call_ret # <<>> =>
        assigned_pairs(call_args.table, call_ret[1]) \in
            greedy_assignments(call_args.table, call_args.detections,
                               1..Len(call_args.table),
                               1..Len(call_args.detections))

---------------------------------------------------------------------------
(* Properties of refresh_tracks *)

\* b binds every detection of the list to a track of the table after the
\* call, no track to two detections
binding(b, detections) ==
    /\ \A i, j \in 1..Len(detections) : b[i] = b[j] => i = j
    /\ \A i \in 1..Len(detections) :
           /\ tracked_faces'[b[i]].bbox = detections[i]
           /\ tracked_faces'[b[i]].frames_since_detection = 0
           /\ tracked_faces'[b[i]].confidence = 100
           /\ b[i] <= Len(tracked_faces) =>
                  iou_ge(calculate_iou(tracked_faces[b[i]].bbox, detections[i]),
                         iou_threshold)

unmatched_tracks(detections) ==
    LET assigned == IF detections = <<>> THEN <<>>
                    ELSE match_detections(tracked_faces, detections, 1, <<>>)
    IN  { k \in 1..Len(tracked_faces) :
              \A i \in 1..Len(assigned) :
                  assigned[i] # tracked_faces[k].tracking_id }

\* C27: in a refresh_tracks call every existing track that no detection
\* matches ages by one cycle (frames_since_detection + 1), also when the
\* detection list is empty
C27_UnmatchedTracksAge ==
    [][ \A detections \in DetectionLists :
          (refresh_tracks(detections) /\ tracked_faces # <<>>) =>
              \A k \in unmatched_tracks(detections) :
                  \A n \in 1..Len(tracked_faces') :
                      tracked_faces'[n].tracking_id = tracked_faces[k].tracking_id =>
                          tracked_faces'[n].frames_since_detection =
                              tracked_faces[k].frames_since_detection + 1 ]_vars

\* the confidence update() computes for a track of that age
confidence_of(frames_since_detection) ==
    Max(50, 100 - 2 * frames_since_detection)

---------------------------------------------------------------------------
(* Properties of the size and the centre of the target crop *)

\* twice the centre of the bounding box of the framed faces
union_center2(fs) ==
    LET idx == 1..Len(fs)
    IN  [x |-> SetMin({fs[i].x : i \in idx})
               + SetMax({fs[i].x + fs[i].width : i \in idx}),
         y |-> SetMin({fs[i].y : i \in idx})
               + SetMax({fs[i].y + fs[i].height : i \in idx})]

\* the padded bounding box lies strictly inside the frame
padding_unclamped(fs) ==
    LET idx == 1..Len(fs)
        min_x == SetMin({fs[i].x : i \in idx})
        min_y == SetMin({fs[i].y : i \in idx})
        max_x == SetMax({fs[i].x + fs[i].width : i \in idx})
        max_y == SetMax({fs[i].y + fs[i].height : i \in idx})
        padding_x == RoundDiv((max_x - min_x) * face_padding, 100)
        padding_y == RoundDiv((max_y - min_y) * face_padding, 100)
    IN  /\ min_x - padding_x > 0
        /\ min_y - padding_y > 0
        /\ max_x + padding_x < ONE
        /\ max_y + padding_y < ONE

\* C30: when neither the padding clamp nor the final position clamp touches
\* a frame edge, the centre of the target crop is the centre of the bounding
\* box of the framed faces (up to four units of rounding on the doubled
\* coordinates)
C30_CentredOnFaceUnion ==
    LET fs == framed_faces_in(call_args.mode, call_args.faces)
    IN  (/\ call_ret # <<>>
         /\ padding_unclamped(fs)
         /\ call_ret[1] = unclamped_crop(fs)
         /\ call_ret[1].x > 0 /\ call_ret[1].y > 0
         /\ call_ret[1].x + call_ret[1].width < ONE
         /\ call_ret[1].y + call_ret[1].height < ONE) =>
            /\ Abs(center2x(call_ret[1]) - union_center2(fs).x) <= 4
            /\ Abs(center2y(call_ret[1]) - union_center2(fs).y) <= 4

\* the statement without rounding: the width of the target crop is in
\* [1/max_zoom, 1/min_zoom], its height is width / aspect_ratio, and the
\* final clamp() leaves the size as it was
C29_Original ==
    call_ret # <<>> =>
        /\ call_ret[1].width >= min_size_float
        /\ call_ret[1].width <= max_size_float
        /\ call_ret[1].height = float_div(call_ret[1].width, aspect_ratio_float)
        /\ call_ret[1].width = unclamped_crop_float(call_args).width
        /\ call_ret[1].height = unclamped_crop_float(call_args).height

\* a size that clamp() reduced: the crop was moved against the right or the
\* bottom edge, and the reduction is at most half the spacing of the floats
\* just below 1.0
reduced_by_rounding(before, after, origin) ==
    /\ after <= before
    /\ 2 * (before - after) <= spacing(FloatOne - 1)
    /\ after # before => origin + after = FloatOne

\* C29: before the final clamp() the width is in [1/max_zoom, 1/min_zoom]
\* and the height is width / aspect_ratio; clamp() changes x and y and
\* leaves the size, except that it can take one rounding error off the width
\* or the height of a crop it moves against the right or the bottom edge
C29_TargetSizeUpToRounding ==
    call_ret # <<>> =>
        LET u == unclamped_crop_float(call_args)
        IN  /\ u.width >= min_size_float
            /\ u.width <= max_size_float
            /\ u.height = float_div(u.width, aspect_ratio_float)
            /\ reduced_by_rounding(u.width, call_ret[1].width, call_ret[1].x)
            /\ reduced_by_rounding(u.height, call_ret[1].height, call_ret[1].y)

\* a crop within the zoom limits that reached beyond the bottom edge, and
\* whose height clamp() reduced
C29_Witness ==
    /\ call_ret # <<>>
    /\ unclamped_crop_float(call_args).y + unclamped_crop_float(call_args).height
           > FloatOne
    /\ call_ret[1].height < unclamped_crop_float(call_args).height
    /\ call_ret[1].width = unclamped_crop_float(call_args).width
    /\ call_ret[1].width > min_size_float
    /\ call_ret[1].width < max_size_float

---------------------------------------------------------------------------
(* Properties of the frame handler of the main window *)

\* the order of the stages: from each position of the handler, the
\* positions it can move to
stage_order ==
    { <<"idle", "detect">>, <<"detect", "update">>, <<"update", "crop">>,
      <<"crop", "send">>, <<"send", "sending">>, <<"send", "preview">>,
      <<"sending", "preview">>, <<"preview", "idle">>,
      <<"detect", "idle">>, <<"crop", "idle">> }

\* the locals of the cycle in progress are the results of this cycle's
\* stages: detection is what detect() returned, crop what update() returned,
\* and the processed frame was cut with that crop
same_cycle_results ==
    /\ window_pc \in {"update", "crop", "send", "sending", "preview"} =>
           /\ cycle.detection # <<>>
           /\ cycle.detection = detect_ret.result
           /\ frame_count = window_frame_count
    /\ window_pc = "detect" =>
           /\ cycle.detection = <<>>
           /\ frame_count = window_frame_count - 1
    /\ window_pc \in {"crop", "send", "sending", "preview"} =>
           /\ cycle.crop # <<>>
           /\ cycle.crop = update_ret
    /\ window_pc \in {"detect", "update"} => cycle.crop = <<>>
    /\ window_pc \in {"send", "sending", "preview"} =>
           /\ cycle.processed # <<>>
           /\ cycle.processed[1].crop = IF enabled THEN cycle.crop ELSE <<>>
    /\ window_pc \in {"detect", "update", "crop"} => cycle.processed = <<>>
    /\ window_pc \in {"detect", "update", "crop", "send"} => send_pc = "idle"

\* C33: the stages of a cycle run in the order detect, update, apply crop,
\* send; update consumes the detection of the same cycle and the crop
\* applied is the one that update returned; the detector, the engine and
\* the sink are used only by the stage of the cycle in progress, and a
\* cycle begins only when the previous one has ended
C33_StagesInOrder ==
    /\ [](same_cycle_results)
    /\ [][/\ window_pc' # window_pc => <<window_pc, window_pc'>> \in stage_order
          /\ cycle'.frame # cycle.frame =>
                 /\ window_pc = "idle" /\ ~is_processing
                 /\ window_pc' = "detect"
                 /\ cycle'.frame > cycle.frame
          /\ detectorVars' # detectorVars =>
                 /\ window_pc = "detect"
                 /\ frame_count' = frame_count + 1
                 /\ cycle'.frame = cycle.frame
          /\ (window_pc = "update" /\ window_pc' = "crop") =>
                 /\ update_ret' # <<>>
                 /\ cycle'.crop = update_ret'
                 /\ (enabled /\ has_faces(cycle.detection[1].faces)) =>
                        /\ target_crop' =
                               calculate_target_crop(detect_ret.result[1].faces)
                        /\ is_tracking'
                 /\ (enabled /\ ~has_faces(cycle.detection[1].faces)) =>
                        frames_without_face' = frames_without_face + 1
          /\ (engineVars' # engineVars /\ window_pc # "idle") =>
                 window_pc = "update"
          /\ (sinkVars' # sinkVars /\ window_pc # "idle") =>
                 window_pc \in {"send", "sending"}
         ]_vars

\* the second cycle has ended after all four stages: a face was detected,
\* the crop returned by update() was still on its way to the target, the
\* frame was cut with it and the sink took the frame
C33_Witness ==
    /\ window_pc = "idle"
    /\ window_ret = [op |-> "returned", frame |-> 2]
    /\ has_faces(cycle.detection[1].faces)
    /\ cycle.crop = update_ret
    /\ cycle.crop[1] # target_crop
    /\ cycle.crop[1] # full_frame
    /\ cycle.processed[1].crop = cycle.crop
    /\ sink_is_running
    /\ devices[cam].sent = 1
    /\ sink_ret.op = "send_frame" /\ sink_ret.sent

\* a frame was delivered to the handler in this step
frame_delivered == window_delivered' = window_delivered + 1

\* C38: _is_processing is true exactly while a cycle is in progress; a frame
\* delivered during a cycle is dropped and leaves the detector, the engine,
\* the sink and the cycle as they are; a frame delivered between two cycles
\* is processed, whether the previous cycle returned or raised, since the
\* flag is cleared at the end of every cycle
C38_ReentrancyGuard ==
    /\ [](is_processing <=> window_pc # "idle")
    /\ [][/\ (frame_delivered /\ window_pc # "idle") =>
                 /\ window_ret' = [op |-> "dropped",
                                   frame |-> window_delivered + 1]
                 /\ UNCHANGED <<detectorVars, engineVars, sinkVars,
                                is_processing, window_frame_count, window_pc,
                                cycle>>
          /\ (frame_delivered /\ window_pc = "idle") =>
                 /\ is_processing'
                 /\ window_pc' = "detect"
                 /\ cycle'.frame = window_delivered + 1
                 /\ window_frame_count' = window_frame_count + 1
          /\ (window_pc # "idle" /\ window_pc' = "idle") =>
                 /\ ~is_processing'
                 /\ window_ret'.op \in {"returned", "raised"}
                 /\ window_ret'.frame = cycle.frame
          /\ (frame_count' # frame_count /\ detect_ret'.status = "raised") =>
                 /\ window_pc' = "idle"
                 /\ window_ret'.op = "raised"
         ]_vars

\* the first cycle ended by the exception of the cascade, the second frame
\* is in its cycle, about to be detected, and the third frame was dropped
C38_Witness ==
    /\ window_pc = "detect"
    /\ is_processing
    /\ cycle.frame = 2
    /\ window_frame_count = 2
    /\ frame_count = 1
    /\ detect_ret.status = "raised"
    /\ window_ret = [op |-> "dropped", frame |-> 3]

---------------------------------------------------------------------------
(* The zoom level under a fixed configuration *)

\* configurations with 1 <= min_zoom <= max_zoom, in tenths: the defaults,
\* no zoom at all, a minimum zoom of 1.5, and a single zoom of 1.5
ZoomConfigs ==
    { [min_zoom |-> min_zoom, max_zoom |-> max_zoom],
      [min_zoom |-> 10, max_zoom |-> 10],
      [min_zoom |-> 15, max_zoom |-> 25],
      [min_zoom |-> 15, max_zoom |-> 15] }

\* faces given to update(): none, a small face in the middle, a face that
\* fills most of the frame
ZoomFaceLists == { <<>>, <<FaceCentre>>, <<FaceBig>> }

\* an engine constructed with one of the configurations, kept in call_args
ZoomInit == ObjectsInit /\ call_args \in ZoomConfigs /\ call_ret = <<>>

ZoomNext ==
    \/ \E faces \in ZoomFaceLists :
           /\ update_in(call_args.min_zoom, call_args.max_zoom, faces)
           /\ UNCHANGED exceptEngine
    \/ reset /\ UNCHANGED exceptEngine

ZoomSpec == ZoomInit /\ [][ZoomNext]_vars

\* current_crop.width never leaves [1/max_zoom, 1/min_zoom]
C39_WidthWithinZoomLimits ==
    /\ current_crop.width >= min_size_in(call_args.max_zoom)
    /\ current_crop.width <= max_size_in(call_args.min_zoom)

\* C39: under a fixed configuration with 1 <= min_zoom <= max_zoom the width
\* of current_crop stays in [1/max_zoom, 1] after any updates and resets
\* (zoom_level in [1, max_zoom]); the width of the target is in
\* [1/max_zoom, 1/min_zoom] while the engine is tracking, and it is the
\* full frame in the initial state and once the faces are lost; with
\* min_zoom = 1 the width of current_crop is in [1/max_zoom, 1/min_zoom]
C39_ZoomAtMostMaxTargetWithinLimits ==
    /\ current_crop.width >= min_size_in(call_args.max_zoom)
    /\ current_crop.width <= ONE
    /\ is_tracking =>
           /\ target_crop.width >= min_size_in(call_args.max_zoom)
           /\ target_crop.width <= max_size_in(call_args.min_zoom)
    /\ (~is_tracking /\ (update_ret = <<>> \/ reset_due(frames_without_face))) =>
           target_crop = full_frame
    /\ call_args.min_zoom = 10 => C39_WidthWithinZoomLimits

\* with a minimum zoom of 1.5 the faces were tracked at the largest crop the
\* limits allow, then lost; the engine is on its way back to the full
\* frame, its crop wider than 1/min_zoom
C39_Witness ==
    /\ call_args.min_zoom = 15
    /\ ~is_tracking
    /\ reset_due(frames_without_face)
    /\ target_crop = full_frame
    /\ update_ret # <<>>
    /\ current_crop.width > max_size_in(call_args.min_zoom)
    /\ current_crop.width < ONE

---------------------------------------------------------------------------
(* The eased step of the lite preview *)

\* ease with the factor 2 + |diff|
ease_float_plus(current, target, speed) ==
    LET diff == float_sub(target, current)
    IN  float_add(current,
                  float_times(float_mul(diff, speed),
                              float_add(2 * FloatOne, Abs(diff))))

\* diff = target - current; current + diff * speed * (2 - abs(diff)), the
\* speed in hundredths
ease_float(current, target, speed) ==
    LET diff == float_sub(target, current)
    IN  float_add(current,
                  float_times(float_mul(diff, speed),
                              float_sub(2 * FloatOne, Abs(diff))))

\* the floats of [0, 1]
UnitFloats == { v \in FloatValues : v >= 0 /\ v <= FloatOne }

\* SMOOTH = 0.06, and the speeds 0.25 and 0.5
EaseSpeeds == {6, 25, 50}

EaseInputs == [current : UnitFloats, target : UnitFloats, speed : EaseSpeeds]

\* update_crop: cx = ease(cx, tx, SMOOTH), frame after frame; the calls
\* are followed until one returns the value it was given
call_ease ==
    LET r == ease_float(call_args.current, call_args.target, call_args.speed)
    IN  /\ IF call_ret = <<>> THEN TRUE
           ELSE call_ret[1].result # call_ret[1].current
        /\ call_ret' = <<[current |-> call_args.current, result |-> r,
                          calls |-> IF call_ret = <<>> THEN 1
                                    ELSE call_ret[1].calls + 1]>>
        /\ call_args' = [call_args EXCEPT !.current = r]

EaseInit == ObjectsInit /\ call_args \in EaseInputs /\ call_ret = <<>>
EaseNext == call_ease /\ UNCHANGED exceptCall
EaseSpec == EaseInit /\ [][EaseNext]_vars

\* the result of ease is strictly closer to the target than current was,
\* whenever the two differ
C40_StrictlyCloser ==
    (call_ret # <<>> /\ call_ret[1].current # call_args.target) =>
        /\ call_ret[1].result # call_ret[1].current
        /\ Abs(call_args.target - call_ret[1].result)
               < Abs(call_args.target - call_ret[1].current)

\* the result of ease lies between current and target
C40_Between ==
    call_ret # <<>> =>
        /\ Min(call_ret[1].current, call_args.target) <= call_ret[1].result
        /\ call_ret[1].result <= Max(call_ret[1].current, call_args.target)

\* the result lies between current and target, is current only when
\* current is the target, and is strictly closer to the target otherwise
C40_Original == C40_Between /\ C40_StrictlyCloser

\* C40: for current and target in [0,1] and 0 < speed <= 0.5 the result of
\* ease is never farther from the target than current, and it is current
\* when current is the target; it lies between current and target up to
\* one spacing of the floats at the larger of the two; it is strictly
\* closer to the target when |target - current| * speed is at least the
\* spacing of the floats at current, and may be current itself when the
\* step is smaller than that
C40_NoOvershootUpToRounding ==
    call_ret # <<>> =>
        LET c == call_ret[1].current
            r == call_ret[1].result
            t == call_args.target
            u == spacing(Max(c, t))
        IN  /\ Abs(t - r) <= Abs(t - c)
            /\ Min(c, t) - u <= r /\ r <= Max(c, t) + u
            /\ (c = t => r = c)
            /\ (c # t /\ Abs(t - c) * call_args.speed >= 100 * spacing(c)) =>
                   /\ r # c
                   /\ Abs(t - r) < Abs(t - c)

\* repeated calls moved the value toward the target, and the last call
\* returned the value it was given although it is not the target
C40_Witness ==
    /\ call_ret # <<>>
    /\ call_ret[1].calls >= 3
    /\ call_ret[1].result = call_ret[1].current
    /\ call_ret[1].current # call_args.target
    /\ call_ret[1].current >= FloatOne \div 2

====
